---- MODULE Spec2Model ----
(***************************************************************************)
(* A model of the restricted Lua parser (src/src/lua_parser.rs), of its    *)
(* top-level accumulator LuaContext and of the recipe decode layer         *)
(* (src/src/recipe.rs).                                                    *)
(*                                                                         *)
(* Text is a sequence of one-character strings.  A parser result is a      *)
(* record [st, val, rest]: st = "ok" (nom's Ok((rest, val))), st = "err"   *)
(* (nom's Err(Err::Error(_)), which alt/opt/many recover from) or          *)
(* st = "panic" (a Rust panic: the call never returns).                    *)
(***************************************************************************)
EXTENDS Integers, Sequences, FiniteSets, TLC

(***************************************************************************)
(* Bounds of the model.                                                    *)
(***************************************************************************)
MaxForms == 2
MaxTextLen == 3
MaxPieces == 2
MaxDepth == 3
MaxLexPieces == 4
MaxOperands == 3

(***************************************************************************)
(* Characters and text.                                                    *)
(***************************************************************************)
Quote == "\""
Backslash == "\\"
Newline == "\n"
CarriageReturn == "\r"
Tab == "\t"

Lower ==
  {"a","b","c","d","e","f","g","h","i","j","k","l","m",
   "n","o","p","q","r","s","t","u","v","w","x","y","z"}
Upper ==
  {"A","B","C","D","E","F","G","H","I","J","K","L","M",
   "N","O","P","Q","R","S","T","U","V","W","X","Y","Z"}
Alpha == Lower \cup Upper
Digit == {"0","1","2","3","4","5","6","7","8","9"}
AlphaNum == Alpha \cup Digit
IdentStart == Alpha \cup {"_"}
IdentChar == AlphaNum \cup {"_"}
Multispace == {" ", Tab, CarriageReturn, Newline}
LineEnd == {CarriageReturn, Newline}
NumChar == Digit \cup {"-", "."}
StrStop == {Quote, Backslash}

DigitVal(c) ==
  CASE c = "0" -> 0 [] c = "1" -> 1 [] c = "2" -> 2 [] c = "3" -> 3
    [] c = "4" -> 4 [] c = "5" -> 5 [] c = "6" -> 6 [] c = "7" -> 7
    [] c = "8" -> 8 [] c = "9" -> 9

Drop(s, n) == SubSeq(s, n + 1, Len(s))
Take(s, n) == SubSeq(s, 1, n)
StartsWith(s, t) == Len(s) >= Len(t) /\ SubSeq(s, 1, Len(t)) = t

\* The end of the longest run of s, from position i on, whose characters
\* are all in S (SpanIn) or all outside S (SpanNotIn): i - 1 for no run.
SpanIn(s, i, S) ==
  (CHOOSE j \in i..(Len(s) + 1) :
     /\ j > Len(s) \/ s[j] \notin S
     /\ \A k \in i..(j - 1) : s[k] \in S) - 1

SpanNotIn(s, i, S) ==
  (CHOOSE j \in i..(Len(s) + 1) :
     /\ j > Len(s) \/ s[j] \in S
     /\ \A k \in i..(j - 1) : s[k] \notin S) - 1

\* str::find of a one-character pattern from position i on: the first
\* index, or 0 for None.
FindFrom(s, i, c) ==
  LET j == SpanNotIn(s, i, {c}) + 1
  IN IF j > Len(s) THEN 0 ELSE j

(***************************************************************************)
(* Parser results.                                                         *)
(***************************************************************************)
Ok(v, rest) == [st |-> "ok", val |-> v, rest |-> rest]
Err == [st |-> "err"]
Panic == [st |-> "panic"]
Unit == "()"

\* alt((a, b)): b is tried only when a returned a recoverable error.
OrElse(a, b) == IF a.st = "err" THEN b ELSE a

\* nom's tag: the literal prefix t.
tag(t, input) == IF StartsWith(input, t) THEN Ok(t, Drop(input, Len(t))) ELSE Err

\* nom's is_a / is_not (complete): the longest non-empty run of characters
\* in S, respectively not in S; an empty run is an error.
\* The first n characters as the value, the others as the remainder; an
\* empty match is an error for the parsers that need one character.
SplitAt(input, n) == Ok(Take(input, n), Drop(input, n))
Split(input, n) == IF n = 0 THEN Err ELSE SplitAt(input, n)

is_a(S, input) == Split(input, SpanIn(input, 1, S))

is_not(S, input) == Split(input, SpanNotIn(input, 1, S))

\* nom's multispace0: zero or more of space, tab, CR, LF; never fails.
multispace0(input) == SplitAt(input, SpanIn(input, 1, Multispace))

(***************************************************************************)
(* The value tree: LuaObject, LuaExpr, LValue, LuaStmt, LuaFunction.       *)
(***************************************************************************)
ObjMap(m) == [tag |-> "Map", map |-> m]
ObjArray(a) == [tag |-> "Array", array |-> a]
ObjBool(b) == [tag |-> "Bool", bool |-> b]
ObjStr(s) == [tag |-> "Str", str |-> s]
ObjInt(i) == [tag |-> "Int", int |-> i]
ObjFloat(f) == [tag |-> "Float", float |-> f]
ObjExpr(e) == [tag |-> "Expr", expr |-> e]

Var(path) == [tag |-> "Var", path |-> path]
Literal(obj) == [tag |-> "Literal", obj |-> obj]
Funcall(path, args) == [tag |-> "Funcall", path |-> path, args |-> args]
Fundef(func) == [tag |-> "Fundef", func |-> func]
Unop(op, operand) == [tag |-> "Unop", op |-> op, operand |-> operand]
Binop(op, lhs, rhs) == [tag |-> "Binop", op |-> op, lhs |-> lhs, rhs |-> rhs]

Dotted(path) == [tag |-> "Dotted", path |-> path]
Subscript(base, index) == [tag |-> "Subscript", base |-> base, index |-> index]

Return(e) == [tag |-> "Return", expr |-> e]
Assign(lvalue, e) == [tag |-> "Assign", lvalue |-> lvalue, expr |-> e]
IfThen(cond, thens, elses) ==
  [tag |-> "IfThen", cond |-> cond, thens |-> thens, elses |-> elses]
StmtExpr(e) == [tag |-> "StmtExpr", expr |-> e]

LuaFunction(args, body) == [args |-> args, body |-> body]


(***************************************************************************)
(* Literal words of the grammar.                                           *)
(***************************************************************************)
W_true == <<"t","r","u","e">>
W_false == <<"f","a","l","s","e">>
W_return == <<"r","e","t","u","r","n">>
W_if == <<"i","f">>
W_then == <<"t","h","e","n">>
W_else == <<"e","l","s","e">>
W_end == <<"e","n","d">>
W_local == <<"l","o","c","a","l">>
W_function == <<"f","u","n","c","t","i","o","n">>
W_data_extend == <<"d","a","t","a",":","e","x","t","e","n","d","(">>
W_comment == <<"-","-">>
W_dotdot == <<".",".">>
W_eqeq == <<"=","=">>
W_tildeeq == <<"~","=">>

\* The names parse_identifier rejects.
Reserved == {W_return, W_true, W_false, W_if, W_then, W_else, W_end}

(***************************************************************************)
(* Rules as parser values.  nom builds a rule from parsers handed to       *)
(* combinators; parse(kind, input) applies the rule named kind to input.   *)
(* Rules reach one another, and the combinators reach their element        *)
(* parsers, through this one operator.                                     *)
(***************************************************************************)
RECURSIVE parse(_, _)

(***************************************************************************)
(* The lexical skipper.                                                    *)
(***************************************************************************)
\* opt(tuple((tag("--"), is_not("\r\n")))): the remainder after an optional
\* line comment; the comment needs at least one character after the marker.
opt_comment(input0) ==
  IF StartsWith(input0, W_comment) /\ is_not(LineEnd, Drop(input0, 2)).st = "ok"
  THEN is_not(LineEnd, Drop(input0, 2)).rest
  ELSE input0

\* A skipper that makes one pass and does not loop.
whitespace_once(input) == Ok(Unit, opt_comment(multispace0(input).rest))

whitespace(input) ==
  LET input1 == opt_comment(multispace0(input).rest)
  IN IF Len(input1) = Len(input) THEN Ok(Unit, input)
     ELSE parse("whitespace", input1)

\* "let (input, _) = whitespace(input)?;" after a rule r: r's value is kept.
ThenWs(r) ==
  IF r.st # "ok" THEN r ELSE Ok(r.val, parse("whitespace", r.rest).rest)

\* "let (input, _) = tag(t)(input)?;" after a rule r: r's value is kept.
Expect(t, r) ==
  IF r.st # "ok" THEN r
  ELSE IF StartsWith(r.rest, t) THEN Ok(r.val, Drop(r.rest, Len(t)))
  ELSE Err

commaspace(input) == ThenWs(tag(<<",">>, input))

(***************************************************************************)
(* Numbers.  i64::from_str accepts an optional sign and one or more        *)
(* digits; f64::from_str accepts an optional sign and digits with at most  *)
(* one dot and at least one digit.  A float is kept as the decimal         *)
(* mant / 10^exp with no trailing zero in the fraction.                    *)
(***************************************************************************)
RECURSIVE DigitsValue(_, _, _)
DigitsValue(s, i, acc) ==
  IF i > Len(s) THEN acc
  ELSE IF s[i] \in Digit THEN DigitsValue(s, i + 1, 10 * acc + DigitVal(s[i]))
  ELSE DigitsValue(s, i + 1, acc)

Unsigned(s) == IF s # <<>> /\ s[1] = "-" THEN Tail(s) ELSE s
Sign(s) == IF s # <<>> /\ s[1] = "-" THEN -1 ELSE 1

i64_from_str(s) ==
  LET body == Unsigned(s)
  IN IF body # <<>> /\ \A i \in 1..Len(body) : body[i] \in Digit
     THEN [ok |-> TRUE, val |-> Sign(s) * DigitsValue(body, 1, 0)]
     ELSE [ok |-> FALSE]

RECURSIVE Decimal(_, _)
Decimal(mant, exp) ==
  IF exp > 0 /\ mant % 10 = 0 THEN Decimal(mant \div 10, exp - 1)
  ELSE [mant |-> mant, exp |-> exp]

f64_from_str(s) ==
  LET body == Unsigned(s)
      dots == {i \in 1..Len(body) : body[i] = "."}
      digits == {i \in 1..Len(body) : body[i] \in Digit}
      dot == CHOOSE i \in dots : TRUE
  IN IF digits # {} /\ Cardinality(dots) <= 1
        /\ \A i \in 1..Len(body) : body[i] \in Digit \cup {"."}
     THEN [ok |-> TRUE,
           val |-> IF dots = {}
                   THEN Decimal(Sign(s) * DigitsValue(body, 1, 0), 0)
                   ELSE Decimal(Sign(s) * DigitsValue(body, 1, 0), Len(body) - dot)]
     ELSE [ok |-> FALSE]

\* i64 promoted to f64 ("i as f64").
f64_from_i64(i) == Decimal(i, 0)

\* The closure of parse_num on the recognized run s.
num_of(s) ==
  IF i64_from_str(s).ok THEN [ok |-> TRUE, val |-> ObjInt(i64_from_str(s).val)]
  ELSE IF f64_from_str(s).ok
  THEN [ok |-> TRUE, val |-> ObjFloat(f64_from_str(s).val)]
  ELSE [ok |-> FALSE]

\* map(p, f) for a closure f that can panic (unwrap of a failed conversion).
MapOrPanic(r, v) ==
  IF r.st # "ok" THEN r ELSE IF v.ok THEN Ok(v.val, r.rest) ELSE Panic

\* recognize(many1(is_a("-0123456789."))): the longest non-empty run.
num_run(input) == is_a(NumChar, input)

parse_num(input) ==
  ThenWs(MapOrPanic(num_run(input), num_of(num_run(input).val)))

(***************************************************************************)
(* Booleans, strings, identifiers.                                         *)
(***************************************************************************)
\* map(p, f): f's result v replaces the value of a successful p.
SetVal(r, v) == IF r.st = "ok" THEN Ok(v, r.rest) ELSE r

\* alt((a, b)): b is tried only when a returned a recoverable error.
parse_bool(input) ==
  ThenWs(OrElse(SetVal(tag(W_true, input), ObjBool(TRUE)),
                SetVal(tag(W_false, input), ObjBool(FALSE))))

\* A string body that must hold at least one character.
str_body_nonempty(input) == Split(input, SpanNotIn(input, 1, StrStop))

\* recognize(many0(is_not("\"\\"))): the longest run, possibly empty, of
\* characters that are neither a quote nor a backslash.
str_body(input) == SplitAt(input, SpanNotIn(input, 1, StrStop))

\* delimited(tag("\""), body, tag("\"")) on the text after the opening quote.
str_rest(body) == ThenWs(Expect(<<Quote>>, SetVal(body, ObjStr(body.val))))

parse_str(input) ==
  IF StartsWith(input, <<Quote>>) THEN str_rest(str_body(Drop(input, 1)))
  ELSE Err

\* recognize(pair(alt((alpha1, tag("_"))), many0(alt((alphanumeric1,
\* tag("_")))))): a letter or underscore, then letters, digits, underscores.
identifier_run(input) ==
  IF input # <<>> /\ input[1] \in IdentStart
  THEN SplitAt(input, SpanIn(input, 2, IdentChar))
  ELSE Err

\* The reserved-word test, made after the trailing whitespace is skipped.
reject_reserved(r) == IF r.st = "ok" /\ r.val \in Reserved THEN Err ELSE r

parse_identifier(input) == reject_reserved(ThenWs(identifier_run(input)))

(***************************************************************************)
(* The recursive grammar.                                                  *)
(***************************************************************************)
RECURSIVE sep_loop(_, _, _, _)
RECURSIVE separated_list0(_, _, _)
RECURSIVE separated_list1(_, _, _)
RECURSIVE many_loop(_, _, _)
RECURSIVE many1(_, _)
RECURSIVE parse_namespaced(_)
RECURSIVE parse_subscript(_)
RECURSIVE parse_lvalue(_)
RECURSIVE parse_object(_)
RECURSIVE parse_field(_)
RECURSIVE parse_assign(_)
RECURSIVE parse_map(_)
RECURSIVE parse_array(_)
RECURSIVE parse_local(_)
RECURSIVE parse_funcall(_)
RECURSIVE parse_return(_)
RECURSIVE parse_unop(_)
RECURSIVE parse_binop(_)
RECURSIVE parse_expr(_)
RECURSIVE parse_ifthen(_)
RECURSIVE parse_stmt(_)
RECURSIVE parse_function(_, _)
RECURSIVE parse_data_extend(_)
RECURSIVE parse_anon_function(_)
RECURSIVE parse_paren(_)
RECURSIVE parse_named_function(_)

parse(kind, input) ==
  CASE kind = "whitespace" -> whitespace(input)
    [] kind = "commaspace" -> commaspace(input)
    [] kind = "num" -> parse_num(input)
    [] kind = "bool" -> parse_bool(input)
    [] kind = "str" -> parse_str(input)
    [] kind = "identifier" -> parse_identifier(input)
    [] kind = "namespaced" -> parse_namespaced(input)
    [] kind = "subscript" -> parse_subscript(input)
    [] kind = "lvalue" -> parse_lvalue(input)
    [] kind = "object" -> parse_object(input)
    [] kind = "field" -> parse_field(input)
    [] kind = "assign" -> parse_assign(input)
    [] kind = "map" -> parse_map(input)
    [] kind = "array" -> parse_array(input)
    [] kind = "data_extend" -> parse_data_extend(input)
    [] kind = "local" -> parse_local(input)
    [] kind = "funcall" -> parse_funcall(input)
    [] kind = "return" -> parse_return(input)
    [] kind = "unop" -> parse_unop(input)
    [] kind = "binop" -> parse_binop(input)
    [] kind = "anon_function" -> parse_anon_function(input)
    [] kind = "paren" -> parse_paren(input)
    [] kind = "expr" -> parse_expr(input)
    [] kind = "ifthen" -> parse_ifthen(input)
    [] kind = "stmt" -> parse_stmt(input)
    [] kind = "named_function" -> parse_named_function(input)

\* The separators handed to separated_list0/1.
sep(kind, input) ==
  CASE kind = "commaspace" -> parse("commaspace", input)
    [] kind = "dot" -> tag(<<".">>, input)

\* opt(p): a recoverable error of p becomes success with nothing consumed.
opt(r, input) == IF r.st = "err" THEN Ok(Unit, input) ELSE r

\* nom's separated_list loop after the first element: a failing separator
\* or a failing element after a separator ends the list before the separator.
sep_loop(sepkind, kind, acc, input) ==
  LET s == sep(sepkind, input)
      r == parse(kind, s.rest)
  IN IF s.st = "err" THEN Ok(acc, input)
     ELSE IF s.st # "ok" THEN s
     ELSE IF Len(s.rest) = Len(input) THEN Err
     ELSE IF r.st = "err" THEN Ok(acc, input)
     ELSE IF r.st # "ok" THEN r
     ELSE sep_loop(sepkind, kind, Append(acc, r.val), r.rest)

separated_list0(sepkind, kind, input) ==
  LET r == parse(kind, input)
  IN IF r.st = "err" THEN Ok(<<>>, input)
     ELSE IF r.st # "ok" THEN r
     ELSE sep_loop(sepkind, kind, <<r.val>>, r.rest)

separated_list1(sepkind, kind, input) ==
  LET r == parse(kind, input)
  IN IF r.st # "ok" THEN r
     ELSE sep_loop(sepkind, kind, <<r.val>>, r.rest)

\* nom's many1 loop after the first element.
many_loop(kind, acc, input) ==
  LET r == parse(kind, input)
  IN IF r.st = "err" THEN Ok(acc, input)
     ELSE IF r.st # "ok" THEN r
     ELSE IF Len(r.rest) = Len(input) THEN Err
     ELSE many_loop(kind, Append(acc, r.val), r.rest)

many1(kind, input) ==
  LET r == parse(kind, input)
  IN IF r.st # "ok" THEN r
     ELSE many_loop(kind, <<r.val>>, r.rest)

parse_namespaced(input) ==
  LET names == separated_list1("dot", "identifier", input)
  IN ThenWs(names)

\* The first "[" of the whole remaining input splits it: the text before it
\* is parsed as the base target, then one bracketed index follows.
parse_subscript(input) ==
  LET idx == FindFrom(input, 1, "[") - 1
      pre == parse("lvalue", Take(input, idx))
      open == tag(<<"[">>, Drop(input, idx - Len(pre.rest)))
      index == parse("expr", open.rest)
      close == ThenWs(Expect(<<"]">>, index))
  IN IF idx < 0 THEN Err
     ELSE IF pre.st # "ok" THEN pre
     ELSE IF open.st # "ok" THEN open
     ELSE IF index.st # "ok" THEN index
     ELSE IF close.st # "ok" THEN close
     ELSE Ok(Subscript(pre.val, index.val), close.rest)

parse_lvalue(input) ==
  LET s == parse("subscript", input)
      d == parse("namespaced", input)
  IN IF s.st # "err" THEN s
     ELSE SetVal(d, Dotted(d.val))

parse_object(input) ==
  LET num == parse("num", input)
      bool == parse("bool", input)
      str == parse("str", input)
      array == parse("array", input)
      map == parse("map", input)
      t == parse("namespaced", input)
  IN IF num.st # "err" THEN num
     ELSE IF bool.st # "err" THEN bool
     ELSE IF str.st # "err" THEN str
     ELSE IF array.st # "err" THEN array
     ELSE IF map.st # "err" THEN map
     ELSE SetVal(t, ObjExpr(Var(t.val)))

parse_field(input) ==
  LET ident == ThenWs(parse("identifier", input))
      eq == ThenWs(Expect(<<"=">>, ident))
      e == parse("expr", eq.rest)
      o == parse("object", eq.rest)
      rhs == IF e.st # "err" THEN SetVal(e, ObjExpr(e.val)) ELSE o
  IN IF ident.st # "ok" THEN ident
     ELSE IF eq.st # "ok" THEN eq
     ELSE IF rhs.st # "ok" THEN rhs
     ELSE Ok(<<ident.val, rhs.val>>, rhs.rest)

parse_assign(input) ==
  LET lvalue == ThenWs(parse("lvalue", input))
      eq == ThenWs(Expect(<<"=">>, lvalue))
      rhs == parse("expr", eq.rest)
  IN IF lvalue.st # "ok" THEN lvalue
     ELSE IF eq.st # "ok" THEN eq
     ELSE IF rhs.st # "ok" THEN rhs
     ELSE Ok(Assign(lvalue.val, rhs.val), rhs.rest)

\* HashMap::from_iter over the fields: a later field of the same name
\* replaces an earlier one.
MapFromFields(fields) ==
  [k \in {fields[i][1] : i \in 1..Len(fields)} |->
     LET last == CHOOSE i \in 1..Len(fields) :
                   /\ fields[i][1] = k
                   /\ \A j \in (i + 1)..Len(fields) : fields[j][1] # k
     IN fields[last][2]]

parse_map(input) ==
  LET open == ThenWs(tag(<<"{">>, input))
      fields == ThenWs(separated_list0("commaspace", "field", open.rest))
      comma == opt(parse("commaspace", fields.rest), fields.rest)
      close == ThenWs(Expect(<<"}">>, comma))
  IN IF open.st # "ok" THEN open
     ELSE IF fields.st # "ok" THEN fields
     ELSE IF comma.st # "ok" THEN comma
     ELSE IF close.st # "ok" THEN close
     ELSE Ok(ObjMap(MapFromFields(fields.val)), close.rest)

\* map(parse_expr, |e| LuaObject::Expr(Box::new(e))) over the elements.
WrapExprs(exprs) == [i \in 1..Len(exprs) |-> ObjExpr(exprs[i])]

parse_array(input) ==
  LET open == ThenWs(tag(<<"{">>, input))
      objects == ThenWs(separated_list1("commaspace", "expr", open.rest))
      comma == opt(parse("commaspace", objects.rest), objects.rest)
      close == ThenWs(Expect(<<"}">>, comma))
  IN IF open.st # "ok" THEN open
     ELSE IF objects.st # "ok" THEN objects
     ELSE IF comma.st # "ok" THEN comma
     ELSE IF close.st # "ok" THEN close
     ELSE Ok(ObjArray(WrapExprs(objects.val)), close.rest)

parse_data_extend(input) ==
  LET open == ThenWs(tag(W_data_extend, input))
      object == ThenWs(parse("object", open.rest))
      close == ThenWs(Expect(<<")">>, object))
  IN IF open.st # "ok" THEN open
     ELSE IF object.st # "ok" THEN object
     ELSE close

parse_local(input) ==
  LET kw == ThenWs(tag(W_local, input))
      ident == ThenWs(parse("identifier", kw.rest))
      eq == ThenWs(Expect(<<"=">>, ident))
      rhs == ThenWs(parse("expr", eq.rest))
  IN IF kw.st # "ok" THEN kw
     ELSE IF ident.st # "ok" THEN ident
     ELSE IF eq.st # "ok" THEN eq
     ELSE IF rhs.st # "ok" THEN rhs
     ELSE Ok(<<ident.val, rhs.val>>, rhs.rest)

parse_funcall(input) ==
  LET name == ThenWs(parse("namespaced", input))
      open == ThenWs(Expect(<<"(">>, name))
      args == separated_list0("commaspace", "expr", open.rest)
      close == ThenWs(Expect(<<")">>, args))
  IN IF name.st # "ok" THEN name
     ELSE IF open.st # "ok" THEN open
     ELSE IF args.st # "ok" THEN args
     ELSE IF close.st # "ok" THEN close
     ELSE Ok(Funcall(name.val, args.val), close.rest)

parse_return(input) ==
  LET kw == ThenWs(tag(W_return, input))
      e == ThenWs(parse("expr", kw.rest))
  IN IF kw.st # "ok" THEN kw
     ELSE SetVal(e, Return(e.val))

parse_unopkind(input) == SetVal(tag(<<"#">>, input), "Octothorpe")

parse_unop(input) ==
  LET op == ThenWs(parse_unopkind(input))
      e == parse("expr", op.rest)
  IN IF op.st # "ok" THEN op
     ELSE SetVal(e, Unop(op.val, e.val))

parse_binopkind(input) ==
  IF StartsWith(input, <<"+">>) THEN Ok("Plus", Drop(input, 1))
  ELSE IF StartsWith(input, <<"-">>) THEN Ok("Minus", Drop(input, 1))
  ELSE IF StartsWith(input, <<"*">>) THEN Ok("Times", Drop(input, 1))
  ELSE IF StartsWith(input, <<"/">>) THEN Ok("Divide", Drop(input, 1))
  ELSE IF StartsWith(input, W_dotdot) THEN Ok("DotDot", Drop(input, 2))
  ELSE IF StartsWith(input, W_eqeq) THEN Ok("EqEq", Drop(input, 2))
  ELSE IF StartsWith(input, W_tildeeq) THEN Ok("TildeEq", Drop(input, 2))
  ELSE Err

\* A binary operation whose right operand is a single value, so that a
\* chain is not nested to the right.
parse_binop_flat(input) ==
  LET lhs == parse("object", input)
      op == ThenWs(parse_binopkind(lhs.rest))
      rhs == parse("object", op.rest)
  IN IF lhs.st # "ok" THEN lhs
     ELSE IF op.st # "ok" THEN op
     ELSE IF rhs.st # "ok" THEN rhs
     ELSE Ok(Binop(op.val, Literal(lhs.val), Literal(rhs.val)), rhs.rest)

parse_binop(input) ==
  LET lhs == parse("object", input)
      op == ThenWs(parse_binopkind(lhs.rest))
      rhs == parse("expr", op.rest)
  IN IF lhs.st # "ok" THEN lhs
     ELSE IF op.st # "ok" THEN op
     ELSE IF rhs.st # "ok" THEN rhs
     ELSE Ok(Binop(op.val, Literal(lhs.val), rhs.val), rhs.rest)

parse_anon_function(input) ==
  LET f == parse_function(FALSE, input)
  IN SetVal(f, f.val[2])

\* delimited(tuple((tag("("), whitespace)), parse_expr, tag(")")).
parse_paren(input) ==
  LET open == ThenWs(tag(<<"(">>, input))
      e == parse("expr", open.rest)
  IN IF open.st # "ok" THEN open
     ELSE IF e.st # "ok" THEN e
     ELSE Expect(<<")">>, e)

parse_expr(input) ==
  LET f == parse("anon_function", input)
      call == parse("funcall", input)
      binop == parse("binop", input)
      unop == parse("unop", input)
      paren == parse("paren", input)
      o == parse("object", input)
  IN IF f.st # "err" THEN SetVal(f, Fundef(f.val))
     ELSE IF call.st # "err" THEN call
     ELSE IF binop.st # "err" THEN binop
     ELSE IF unop.st # "err" THEN unop
     ELSE IF paren.st # "err" THEN paren
     ELSE SetVal(o, Literal(o.val))

parse_ifthen(input) ==
  LET kw == ThenWs(tag(W_if, input))
      cond == parse("expr", kw.rest)
      then == ThenWs(Expect(W_then, cond))
      thens == many1("stmt", then.rest)
      else == ThenWs(tag(W_else, thens.rest))
      elses == many1("stmt", else.rest)
      with_else == IF else.st # "ok" THEN else
                   ELSE IF elses.st # "ok" THEN elses
                   ELSE Expect(W_end, elses)
      tail == IF with_else.st # "err" THEN with_else
              ELSE SetVal(tag(W_end, thens.rest), <<>>)
      end == ThenWs(tail)
  IN IF kw.st # "ok" THEN kw
     ELSE IF cond.st # "ok" THEN cond
     ELSE IF then.st # "ok" THEN then
     ELSE IF thens.st # "ok" THEN thens
     ELSE IF end.st # "ok" THEN end
     ELSE Ok(IfThen(cond.val, thens.val, end.val), end.rest)

parse_stmt(input) ==
  LET ret == parse("return", input)
      assign == parse("assign", input)
      l == parse("local", input)
      ifthen == parse("ifthen", input)
      e == parse("expr", input)
  IN IF ret.st # "err" THEN ret
     ELSE IF assign.st # "err" THEN assign
     ELSE IF l.st # "err" THEN SetVal(l, Assign(Dotted(<<l.val[1]>>), l.val[2]))
     ELSE IF ifthen.st # "err" THEN ifthen
     ELSE SetVal(e, StmtExpr(e.val))

\* "if false {...} else { Err(...) }": the unhandled-body rule never matches.
parse_unhandled_body(input) == Err

\* named = TRUE: the name position is tuple((parse_identifier, whitespace));
\* named = FALSE: it consumes nothing.
parse_function(named, input) ==
  LET kw == ThenWs(tag(W_function, input))
      name == IF named THEN ThenWs(parse("identifier", kw.rest))
              ELSE Ok(Unit, kw.rest)
      open == ThenWs(Expect(<<"(">>, name))
      args == separated_list0("commaspace", "identifier", open.rest)
      close == ThenWs(Expect(<<")">>, args))
      stmts == many1("stmt", close.rest)
      u == parse_unhandled_body(close.rest)
      body == IF stmts.st # "err" THEN stmts ELSE SetVal(u, <<u.val>>)
      end == ThenWs(Expect(W_end, body))
  IN IF kw.st # "ok" THEN kw
     ELSE IF name.st # "ok" THEN name
     ELSE IF open.st # "ok" THEN open
     ELSE IF args.st # "ok" THEN args
     ELSE IF close.st # "ok" THEN close
     ELSE IF body.st # "ok" THEN body
     ELSE IF end.st # "ok" THEN end
     ELSE Ok(<<name.val, LuaFunction(args.val, body.val)>>, end.rest)

parse_named_function(input) == parse_function(TRUE, input)

(***************************************************************************)
(* LuaObject::simplify.                                                    *)
(***************************************************************************)
RECURSIVE simplify(_)
\* A simplify that unwraps a literal wrapper without simplifying what it
\* held.
simplify_unwrap(self) ==
  CASE self.tag = "Map" ->
         ObjMap([k \in DOMAIN self.map |-> simplify(self.map[k])])
    [] self.tag = "Array" ->
         ObjArray([i \in 1..Len(self.array) |-> simplify(self.array[i])])
    [] self.tag = "Expr" ->
         IF self.expr.tag = "Literal" THEN self.expr.obj ELSE self
    [] OTHER -> self

simplify(self) ==
  CASE self.tag = "Map" ->
         ObjMap([k \in DOMAIN self.map |-> simplify(self.map[k])])
    [] self.tag = "Array" ->
         ObjArray([i \in 1..Len(self.array) |-> simplify(self.array[i])])
    [] self.tag = "Expr" ->
         IF self.expr.tag = "Literal" THEN simplify(self.expr.obj) ELSE self
    [] OTHER -> self

(***************************************************************************)
(* The decode layer: TryFrom<LuaObject>.  A conversion result is           *)
(* [ok |-> TRUE, val] or [ok |-> FALSE, err], the error a list of text     *)
(* pieces.  A target type is a record [ty, ...].                           *)
(***************************************************************************)
DOk(v) == [ok |-> TRUE, val |-> v]
DErr(e) == [ok |-> FALSE, err |-> e]

T_bool == [ty |-> "bool"]
T_String == [ty |-> "String"]
T_i64 == [ty |-> "i64"]
T_f64 == [ty |-> "f64"]
T_Ingredient == [ty |-> "Ingredient"]
T_Recipe == [ty |-> "Recipe"]
T_Vec(elem) == [ty |-> "Vec", elem |-> elem]
T_HashSet(elem) == [ty |-> "HashSet", elem |-> elem]
T_Pair(first, second) == [ty |-> "Pair", first |-> first, second |-> second]

K_name == <<"n","a","m","e">>
K_category == <<"c","a","t","e","g","o","r","y">>
K_normal == <<"n","o","r","m","a","l">>
K_results == <<"r","e","s","u","l","t","s">>
K_result == <<"r","e","s","u","l","t">>
K_result_count == <<"r","e","s","u","l","t","_","c","o","u","n","t">>
K_enabled == <<"e","n","a","b","l","e","d">>
K_energy_required ==
  <<"e","n","e","r","g","y","_","r","e","q","u","i","r","e","d">>
K_ingredients == <<"i","n","g","r","e","d","i","e","n","t","s">>
K_amount == <<"a","m","o","u","n","t">>
K_type == <<"t","y","p","e">>
K_item == <<"i","t","e","m">>
K_crafting == <<"c","r","a","f","t","i","n","g">>

\* The decimal rendering of a small index ("{}" of a usize).
IndexText(i) ==
  CASE i = 0 -> "0" [] i = 1 -> "1" [] i = 2 -> "2" [] i = 3 -> "3"
    [] i = 4 -> "4" [] i = 5 -> "5" [] i = 6 -> "6" [] i = 7 -> "7"
    [] i = 8 -> "8" [] i = 9 -> "9"

bool_try_from(value) ==
  IF value.tag = "Bool" THEN DOk(value.bool) ELSE DErr(<<"Not a Bool">>)

String_try_from(value) ==
  IF value.tag = "Str" THEN DOk(value.str) ELSE DErr(<<"Not a Str">>)

i64_try_from(value) ==
  IF value.tag = "Int" THEN DOk(value.int) ELSE DErr(<<"Not a Int">>)

f64_try_from(value) ==
  IF value.tag = "Float" THEN DOk(value.float)
  ELSE IF value.tag = "Int" THEN DOk(f64_from_i64(value.int))
  ELSE DErr(<<"Not a Float">>)

\* HashMap<String, LuaObject>: the element conversion is the identity.
HashMap_try_from(value) ==
  IF value.tag = "Map" THEN DOk(value.map) ELSE DErr(<<"Not a Map">>)

\* map.remove_entry(key): no key is taken twice from one map, so the
\* removal itself is not observable and only the lookup is kept.
Has(map, key) == key \in DOMAIN map

RECURSIVE try_from(_, _)
RECURSIVE Vec_try_from(_, _)
RECURSIVE Pair_try_from(_, _, _)
RECURSIVE HashSet_try_from(_, _)
RECURSIVE Ingredient_try_from(_)
RECURSIVE take_results(_)
RECURSIVE Recipe_try_from(_)

\* T::try_from(value) for the target type T.
try_from(T, value) ==
  CASE T.ty = "bool" -> bool_try_from(value)
    [] T.ty = "String" -> String_try_from(value)
    [] T.ty = "i64" -> i64_try_from(value)
    [] T.ty = "f64" -> f64_try_from(value)
    [] T.ty = "LuaObject" -> DOk(value)
    [] T.ty = "Vec" -> Vec_try_from(T.elem, value)
    [] T.ty = "HashSet" -> HashSet_try_from(T.elem, value)
    [] T.ty = "Pair" -> Pair_try_from(T.first, T.second, value)
    [] T.ty = "Ingredient" -> Ingredient_try_from(value)
    [] T.ty = "Recipe" -> Recipe_try_from(value)

\* Vec<T>: every element in order; the first failure names its index.
Vec_try_from(T, value) ==
  IF value.tag # "Array" THEN DErr(<<"Not an Array">>)
  ELSE LET each == [i \in 1..Len(value.array) |-> try_from(T, value.array[i])]
           bad == {i \in 1..Len(each) : ~each[i].ok}
           first == CHOOSE i \in bad : \A j \in bad : i <= j
       IN IF bad = {} THEN DOk([i \in 1..Len(each) |-> each[i].val])
          ELSE DErr(<<"Could not convert child ", IndexText(first - 1), ": ">>
                    \o each[first].err)

\* HashMap<String, T>: every entry is converted, in the iteration order of
\* the table, which is unspecified: when several entries fail, the failure
\* returned is that of any one of them.  The set of possible outcomes.
HashMap_T_try_from(T, value) ==
  IF value.tag # "Map" THEN {DErr(<<"Not a Map">>)}
  ELSE LET each == [k \in DOMAIN value.map |-> try_from(T, value.map[k])]
           bad == {k \in DOMAIN each : ~each[k].ok}
       IN IF bad = {} THEN {DOk([k \in DOMAIN each |-> each[k].val])}
          ELSE {DErr(<<"Could not convert child '">> \o k \o <<"': ">>
                     \o each[k].err) : k \in bad}

\* HashSet<T>: every element in order; the first failure names its index
\* and drops the element's own failure.
HashSet_try_from(T, value) ==
  IF value.tag # "Array" THEN DErr(<<"Not an Array">>)
  ELSE LET each == [i \in 1..Len(value.array) |-> try_from(T, value.array[i])]
           bad == {i \in 1..Len(each) : ~each[i].ok}
           first == CHOOSE i \in bad : \A j \in bad : i <= j
       IN IF bad = {} THEN DOk({each[i].val : i \in 1..Len(each)})
          ELSE DErr(<<"Could not convert '", IndexText(first - 1), "'">>)

\* (T1, T2): an Array of exactly two elements.
Pair_try_from(T1, T2, value) ==
  IF value.tag # "Array" THEN DErr(<<"Not an Array">>)
  ELSE IF Len(value.array) # 2 THEN DErr(<<"Invalid sized array">>)
  ELSE LET a == try_from(T1, value.array[1])
           b == try_from(T2, value.array[2])
       IN IF ~a.ok THEN DErr(<<"Couldn't convert first arg">>)
          ELSE IF ~b.ok THEN DErr(<<"Couldn't convert second arg">>)
          ELSE DOk(<<a.val, b.val>>)

Ingredient(name, amount, type_) ==
  [name |-> name, amount |-> amount, type_ |-> type_]

Ingredient_try_from(value) ==
  LET array_form == Pair_try_from(T_String, T_i64, value)
      map_form == HashMap_try_from(value)
      map == map_form.val
      name == IF Has(map, K_name) THEN String_try_from(map[K_name])
              ELSE DErr(<<"Cannot find field 'name'">>)
      amount == IF Has(map, K_amount) THEN i64_try_from(map[K_amount]) ELSE DOk(1)
      type_ == IF Has(map, K_type) THEN String_try_from(map[K_type]) ELSE DOk(K_item)
  IN IF array_form.ok /\ ~map_form.ok
     THEN DOk(Ingredient(array_form.val[1], array_form.val[2], K_item))
     ELSE IF ~array_form.ok /\ map_form.ok
     THEN IF ~name.ok THEN name
          ELSE IF ~amount.ok THEN amount
          ELSE IF ~type_.ok THEN type_
          ELSE DOk(Ingredient(name.val, amount.val, type_.val))
     ELSE DErr(<<"Cannot decode ingredient">>)

\* The "results" of a recipe body: the list under "results", or the single
\* "result" with its optional "result_count".
take_results(map) ==
  LET r == String_try_from(map[K_result])
      c == i64_try_from(map[K_result_count])
  IN IF Has(map, K_results) THEN Vec_try_from(T_Ingredient, map[K_results])
     ELSE IF ~Has(map, K_result) THEN DErr(<<"No entry 'result' or 'results'">>)
     ELSE IF ~Has(map, K_result_count)
     THEN IF r.ok THEN DOk(<<Ingredient(r.val, 1, K_item)>>) ELSE r
     ELSE IF ~r.ok THEN r
     ELSE IF ~c.ok THEN c
     ELSE DOk(<<Ingredient(r.val, c.val, K_item)>>)

\* 1f64 / energy_required, kept as the fraction num / den.
f64_recip(d) == [num |-> 10 ^ d.exp, den |-> d.mant]

Recipe(name, category, enabled, ingredients, speed, results) ==
  [name |-> name, category |-> category, enabled |-> enabled,
   ingredients |-> ingredients, speed |-> speed, results |-> results]

Recipe_try_from(lua) ==
  LET conts == HashMap_try_from(lua)
      name == IF Has(conts.val, K_name) THEN String_try_from(conts.val[K_name])
              ELSE DErr(<<"No entry 'name'">>)
      category == IF Has(conts.val, K_category)
                  THEN String_try_from(conts.val[K_category])
                  ELSE DOk(K_crafting)
      recipe == IF Has(conts.val, K_normal)
                THEN HashMap_try_from(conts.val[K_normal])
                ELSE DErr(<<"No normal recipe">>)
      body == IF recipe.ok THEN recipe.val ELSE conts.val
      results == take_results(body)
      enabled == IF Has(body, K_enabled) THEN bool_try_from(body[K_enabled])
                 ELSE DOk(TRUE)
      energy_required == IF Has(body, K_energy_required)
                         THEN f64_try_from(body[K_energy_required])
                         ELSE DOk(f64_from_i64(1))
      ingredients == IF Has(body, K_ingredients)
                     THEN Vec_try_from(T_Ingredient, body[K_ingredients])
                     ELSE DErr(<<"No entry 'ingredients'">>)
  IN IF ~conts.ok THEN conts
     ELSE IF ~name.ok THEN name
     ELSE IF ~category.ok THEN category
     ELSE IF ~results.ok THEN results
     ELSE IF ~enabled.ok THEN enabled
     ELSE IF ~energy_required.ok THEN energy_required
     ELSE IF ~ingredients.ok THEN ingredients
     ELSE DOk(Recipe(name.val, category.val, enabled.val, ingredients.val,
                     f64_recip(energy_required.val), results.val))

(***************************************************************************)
(* The top-level accumulator LuaContext.                                   *)
(***************************************************************************)
EmptyMap == <<>>

\* An insert that keeps the value of an existing key.
insert_keep(map, key, value) ==
  [k \in DOMAIN map \cup {key} |-> IF k \in DOMAIN map THEN map[k] ELSE value]

\* HashMap::insert: the value of an existing key is replaced.
insert(map, key, value) ==
  [k \in DOMAIN map \cup {key} |-> IF k = key THEN value ELSE map[k]]

\* A push that puts the new entry first.
push_front(vec, value) == <<value>> \o vec

\* Vec::push.
push(vec, value) == Append(vec, value)

LuaContext(locals_, functions_, data_extends_) ==
  [locals |-> locals_, functions |-> functions_, data_extends |-> data_extends_]

new == LuaContext(EmptyMap, EmptyMap, <<>>)

\* The closures of parse_toplevel's four alternatives, run on a match.
on_data_extend(self, obj) ==
  [self EXCEPT !.data_extends = push(self.data_extends, obj)]

on_local(self, name, expr) ==
  [self EXCEPT !.locals = insert(self.locals, name, expr)]

on_named_function(self, name, func) ==
  [self EXCEPT !.functions = insert(self.functions, name, func)]

\* A statement closure that records an assignment to a plain name as a
\* binding.
on_stmt_binds(self, stmt) ==
  IF stmt.tag = "Assign" /\ stmt.lvalue.tag = "Dotted"
  THEN on_local(self, stmt.lvalue.path[1], stmt.expr)
  ELSE self

\* map(parse_stmt, |_| ()): the statement is discarded.
on_stmt(self, stmt) == self

\* One call of parse_toplevel: the outcome, the remainder and the context
\* as the call leaves it.
Toplevel(st, rest, self) == [st |-> st, rest |-> rest, self |-> self]

\* An alternation that hands back an emptied context when no alternative
\* matches.
alt_toplevel_reset(self, input, d, l, f, s) ==
  IF d.st = "ok" THEN Toplevel("ok", d.rest, on_data_extend(self, d.val))
  ELSE IF d.st # "err" THEN Toplevel(d.st, input, self)
  ELSE IF l.st = "ok"
  THEN Toplevel("ok", l.rest, on_local(self, l.val[1], l.val[2]))
  ELSE IF l.st # "err" THEN Toplevel(l.st, input, self)
  ELSE IF f.st = "ok"
  THEN Toplevel("ok", f.rest, on_named_function(self, f.val[1], f.val[2]))
  ELSE IF f.st # "err" THEN Toplevel(f.st, input, self)
  ELSE IF s.st = "ok" THEN Toplevel("ok", s.rest, on_stmt(self, s.val))
  ELSE Toplevel(s.st, input, new)

\* An alternation whose data:extend alternative registers its argument and
\* hands back the input it was given.
alt_toplevel_stay(self, input, d, l, f, s) ==
  IF d.st = "ok" THEN Toplevel("ok", input, on_data_extend(self, d.val))
  ELSE IF d.st # "err" THEN Toplevel(d.st, input, self)
  ELSE IF l.st = "ok"
  THEN Toplevel("ok", l.rest, on_local(self, l.val[1], l.val[2]))
  ELSE IF l.st # "err" THEN Toplevel(l.st, input, self)
  ELSE IF f.st = "ok"
  THEN Toplevel("ok", f.rest, on_named_function(self, f.val[1], f.val[2]))
  ELSE IF f.st # "err" THEN Toplevel(f.st, input, self)
  ELSE IF s.st = "ok" THEN Toplevel("ok", s.rest, on_stmt(self, s.val))
  ELSE Toplevel(s.st, input, self)

\* alt over the four alternatives' outcomes d, l, f, s: the first that is
\* not a recoverable error decides, and only a match runs its closure.
alt_toplevel(self, input, d, l, f, s) ==
  IF d.st = "ok" THEN Toplevel("ok", d.rest, on_data_extend(self, d.val))
  ELSE IF d.st # "err" THEN Toplevel(d.st, input, self)
  ELSE IF l.st = "ok"
  THEN Toplevel("ok", l.rest, on_local(self, l.val[1], l.val[2]))
  ELSE IF l.st # "err" THEN Toplevel(l.st, input, self)
  ELSE IF f.st = "ok"
  THEN Toplevel("ok", f.rest, on_named_function(self, f.val[1], f.val[2]))
  ELSE IF f.st # "err" THEN Toplevel(f.st, input, self)
  ELSE IF s.st = "ok" THEN Toplevel("ok", s.rest, on_stmt(self, s.val))
  ELSE Toplevel(s.st, input, self)

parse_toplevel(self, input) ==
  alt_toplevel(self, input, parse("data_extend", input), parse("local", input),
               parse("named_function", input), parse("stmt", input))

(***************************************************************************)
(* Input files: up to MaxForms top-level forms, one per line, and the      *)
(* single-call recipe file.                                                *)
(***************************************************************************)
Text_E1 ==
  <<"d","a","t","a",":","e","x","t","e","n","d","(","{","1","}",")","\n">>
Text_E2 ==
  <<"d","a","t","a",":","e","x","t","e","n","d","(","{","a"," ","="," ","t",
    "r","u","e","}",")","\n">>
Text_L1 == <<"l","o","c","a","l"," ","x"," ","="," ","1","\n">>
Text_L2 == <<"l","o","c","a","l"," ","x"," ","="," ","f","(","2",")","\n">>
Text_L3 == <<"l","o","c","a","l"," ","y"," ","="," ","\"","s","\"","\n">>
Text_F1 ==
  <<"f","u","n","c","t","i","o","n"," ","f","(","a",")"," ","r","e","t","u",
    "r","n"," ","a"," ","e","n","d","\n">>
Text_F2 ==
  <<"f","u","n","c","t","i","o","n"," ","f","(",")"," ","l","o","c","a","l",
    " ","x"," ","="," ","3"," ","e","n","d","\n">>
Text_S1 == <<"x"," ","="," ","4","\n">>
Text_S2 ==
  <<"i","f"," ","c"," ","t","h","e","n"," ","l","o","c","a","l"," ","x"," ",
    "="," ","5"," ","e","l","s","e"," ","l","o","c","a","l"," ","y"," ","=",
    " ","6"," ","e","n","d","\n">>
Text_S3 ==
  <<"f","u","n","c","t","i","o","n","(",")"," ","r","e","t","u","r","n"," ",
    "7"," ","e","n","d","\n">>
Text_B1 == <<"l","o","c","a","l"," ","z"," ","="," ","{","1",","," ","2","\n">>
Text_P1 == <<"-","-"," ","c","\n">>
Text_N1 == <<"\n","\n">>
Text_Recipe ==
  <<"d","a","t","a",":","e","x","t","e","n","d","(","{"," ","{"," ","n","a",
    "m","e"," ","="," ","\"","a","\"",","," ","i","n","g","r","e","d","i","e",
    "n","t","s"," ","="," ","{","{","\"","b","\"",","," ","1","}","}",","," ",
    "r","e","s","u","l","t","s"," ","="," ","{","{","\"","a","\"",","," ","1",
    "}","}"," ","}"," ","}",")">>

FormIds ==
  {"E1", "E2", "L1", "L2", "L3", "F1", "F2", "S1", "S2", "S3", "B1", "P1", "N1"}

Form(id) ==
  CASE id = "E1" -> [kind |-> "extend", text |-> Text_E1]
    [] id = "E2" -> [kind |-> "extend", text |-> Text_E2]
    [] id = "L1" -> [kind |-> "local", text |-> Text_L1]
    [] id = "L2" -> [kind |-> "local", text |-> Text_L2]
    [] id = "L3" -> [kind |-> "local", text |-> Text_L3]
    [] id = "F1" -> [kind |-> "function", text |-> Text_F1]
    [] id = "F2" -> [kind |-> "function", text |-> Text_F2]
    [] id = "S1" -> [kind |-> "stmt", text |-> Text_S1]
    [] id = "S2" -> [kind |-> "stmt", text |-> Text_S2]
    [] id = "S3" -> [kind |-> "stmt", text |-> Text_S3]
    [] id = "B1" -> [kind |-> "unclosed", text |-> Text_B1]
    [] id = "P1" -> [kind |-> "comment", text |-> Text_P1]
    [] id = "N1" -> [kind |-> "blank", text |-> Text_N1]
    [] id = "Recipe" -> [kind |-> "extend", text |-> Text_Recipe]

RECURSIVE FileText(_)
FileText(ids) ==
  IF ids = <<>> THEN <<>> ELSE Form(Head(ids)).text \o FileText(Tail(ids))

Files ==
  UNION {[1..n -> FormIds] : n \in 0..MaxForms} \cup {<<"Recipe">>}

(***************************************************************************)
(* State.  forms names the top-level forms the file was written from;      *)
(* input is parse_all's remaining input; locals, functions, data_extends   *)
(* are the fields of the LuaContext; decoded holds the conversion of each  *)
(* registration; pc is the position of the run.  text, value, result and   *)
(* again belong to the runs of single functions.                           *)
(***************************************************************************)
VARIABLES forms, input, locals, functions, data_extends, decoded, pc,
          text, value, result, again

\* main's requirement resolution: the map from a product to the recipes that
\* make it, the goal, the work queue, the raw requirements found so far, and
\* the pair the running iteration of the loop has popped.
VARIABLES recipe_map, goal, todo_requirements, requirements, product, speed

resolution == <<recipe_map, goal, todo_requirements, requirements,
                product, speed>>

vars == <<forms, input, locals, functions, data_extends, decoded, pc,
          text, value, result, again, resolution>>

None == "none"

\* No resolution is running.
NoGoal ==
  /\ recipe_map = <<>>
  /\ goal = None
  /\ todo_requirements = <<>>
  /\ requirements = <<>>
  /\ product = None
  /\ speed = None

self == LuaContext(locals, functions, data_extends)

Idle ==
  /\ text = <<>>
  /\ value = None
  /\ result = None
  /\ again = None

Init ==
  /\ forms \in Files
  /\ input = FileText(forms)
  /\ locals = new.locals
  /\ functions = new.functions
  /\ data_extends = new.data_extends
  /\ decoded = <<>>
  /\ pc = "parse_all"
  /\ Idle
  /\ NoGoal

\* The context as a call r of parse_toplevel leaves it.
Commit(r) ==
  /\ locals' = r.self.locals
  /\ functions' = r.self.functions
  /\ data_extends' = r.self.data_extends

\* "let (new_input, ()) = self.parse_toplevel(input)?; input = new_input;"
\* on a match: the loop goes on while input is left, and returns Ok once it
\* is empty.
Matched(r) ==
  /\ r.st = "ok"
  /\ Commit(r)
  /\ input' = r.rest
  /\ pc' = IF r.rest = <<>> THEN "ok" ELSE "parse_all"

\* "?" on a recoverable error: parse_all returns it.
Failed(r) == r.st = "err" /\ Commit(r) /\ pc' = "err"

\* A panic inside the call unwinds through parse_all.
Panicked(r) == r.st = "panic" /\ Commit(r) /\ pc' = "panic"

\* One iteration of parse_all's loop whose parse_toplevel call matches.
Step ==
  /\ pc = "parse_all"
  /\ Matched(parse_toplevel(self, input))
  /\ UNCHANGED resolution
  /\ UNCHANGED <<forms, decoded, text, value, result, again>>

\* The iteration whose parse_toplevel call fails.
Fail ==
  /\ pc = "parse_all"
  /\ Failed(parse_toplevel(self, input))
  /\ UNCHANGED resolution
  /\ UNCHANGED <<forms, input, decoded, text, value, result, again>>

\* The iteration whose parse_toplevel call panics (parse_num's unwrap).
Abort ==
  /\ pc = "parse_all"
  /\ Panicked(parse_toplevel(self, input))
  /\ UNCHANGED resolution
  /\ UNCHANGED <<forms, input, decoded, text, value, result, again>>

\* Each registration is decoded as a sequence of Recipe records.
Decode ==
  /\ pc = "ok"
  /\ decoded' = [i \in 1..Len(data_extends) |->
                   try_from(T_Vec(T_Recipe), data_extends[i])]
  /\ pc' = "decoded"
  /\ UNCHANGED resolution
  /\ UNCHANGED <<forms, input, locals, functions, data_extends,
                 text, value, result, again>>

Next == Step \/ Fail \/ Abort \/ Decode

Spec == Init /\ [][Next]_vars

\* The pass runs to its end.  parse_all is sequential code: while control is
\* in its loop the next iteration is executed (every call of parse_toplevel
\* has an outcome, so an iteration is always possible there), and the
\* conversion follows a successful return.
LoopRuns == []<>(pc # "parse_all") \/ []<><<Next>>_vars

FairSpec == Spec /\ LoopRuns /\ WF_vars(Decode)

(***************************************************************************)
(* Runs of a single parser on a text.  The texts are string literals with  *)
(* a body of up to MaxTextLen characters, words put together from up to    *)
(* MaxPieces pieces, and composite literals of up to MaxPieces elements.   *)
(***************************************************************************)
RECURSIVE Concat(_)
Concat(ss) == IF ss = <<>> THEN <<>> ELSE Head(ss) \o Concat(Tail(ss))

Tuples(S, lo, hi) == UNION {[1..n -> S] : n \in lo..hi}

StrAlphabet == {"a", " ", "-", Newline, Quote, Backslash}
Quoted(s) == <<Quote>> \o s \o <<Quote>>
StrTexts == {Quoted(s) : s \in Tuples(StrAlphabet, 0, MaxTextLen)}

WordPieces ==
  {W_true, W_false, <<"i","s","h">>, <<"_","a","l","a","r","m">>, <<" ">>,
   <<"x">>}
WordTexts == {Concat(ps) : ps \in Tuples(WordPieces, 1, MaxPieces)}

ElemTexts ==
  {<<"1">>, <<"2",".","5">>, W_true, <<Quote,"s",Quote>>, <<"{","3","}">>,
   <<"{","k"," ","="," ","4","}">>, <<"x">>}
FieldNames == <<K_name, K_amount, <<"k">>>>

RECURSIVE JoinElems(_)
JoinElems(es) ==
  IF Len(es) = 1 THEN es[1] ELSE es[1] \o <<",", " ">> \o JoinElems(Tail(es))

ArrayText(es) == <<"{">> \o JoinElems(es) \o <<"}">>
FieldText(i, e) == FieldNames[i] \o <<" ", "=", " ">> \o e
MapText(es) ==
  <<"{">> \o JoinElems([i \in 1..Len(es) |-> FieldText(i, es[i])]) \o <<"}">>

Text_Array123 == <<"{","1",","," ","2",","," ","3","}">>
Text_MapFoo ==
  <<"{","n","a","m","e"," ","="," ",Quote,"f","o","o",Quote,","," ","a","m",
    "o","u","n","t"," ","="," ","2","}">>

ArrayTexts == {ArrayText(es) : es \in Tuples(ElemTexts, 1, MaxPieces)}
MapTexts == {MapText(es) : es \in Tuples(ElemTexts, 1, MaxPieces)}
Texts ==
  StrTexts \cup WordTexts \cup ArrayTexts \cup MapTexts
    \cup {Text_Array123, Text_MapFoo}

NoFile ==
  /\ forms = <<>>
  /\ input = <<>>
  /\ locals = new.locals
  /\ functions = new.functions
  /\ data_extends = new.data_extends
  /\ decoded = <<>>

InitText ==
  /\ NoFile
  /\ NoGoal
  /\ text \in Texts
  /\ value = None
  /\ result = None
  /\ again = None
  /\ pc = "text"

\* parse_str called on the text.
CallParseStr ==
  /\ pc = "text"
  /\ result' = parse("str", text)
  /\ pc' = "parse_str"
  /\ UNCHANGED resolution
  /\ UNCHANGED <<forms, input, locals, functions, data_extends, decoded,
                 text, value, again>>

\* parse_object called on the text.
CallParseObject ==
  /\ pc = "text"
  /\ result' = parse("object", text)
  /\ pc' = "parse_object"
  /\ UNCHANGED resolution
  /\ UNCHANGED <<forms, input, locals, functions, data_extends, decoded,
                 text, value, again>>

NextText == CallParseStr \/ CallParseObject

SpecText == InitText /\ [][NextText]_vars

(***************************************************************************)
(* Runs of simplify on a value: the value trees of depth up to MaxDepth    *)
(* over a few leaves, with literal wrappers at every level.                *)
(***************************************************************************)
Leaves ==
  {ObjInt(1), ObjBool(TRUE), ObjStr(<<"s">>), ObjExpr(Var(<<<<"x">>>>))}
Fillers == {ObjFloat(Decimal(25, 1)), ObjExpr(Literal(ObjInt(2)))}

RECURSIVE Values(_)
Values(d) ==
  IF d = 0 THEN Leaves
  ELSE LET V == Values(d - 1)
       IN V \cup {ObjExpr(Literal(v)) : v \in V}
            \cup {ObjExpr(Unop("Octothorpe", Literal(v))) : v \in V}
            \cup {ObjArray(<<v>>) : v \in V}
            \cup {ObjArray(<<f, v>>) : f \in Fillers, v \in V}
            \cup {ObjMap((<<"k">> :> v)) : v \in V}
            \cup {ObjMap((<<"k">> :> v) @@ (<<"j">> :> f)) : f \in Fillers, v \in V}

InitSimplify ==
  /\ NoFile
  /\ NoGoal
  /\ text = <<>>
  /\ value \in Values(MaxDepth)
  /\ result = None
  /\ again = None
  /\ pc = "value"

\* value.simplify().
Simplify ==
  /\ pc = "value"
  /\ result' = simplify(value)
  /\ pc' = "simplify"
  /\ UNCHANGED resolution
  /\ UNCHANGED <<forms, input, locals, functions, data_extends, decoded,
                 text, value, again>>

\* simplify applied to the simplified value.
SimplifyAgain ==
  /\ pc = "simplify"
  /\ again' = simplify(result)
  /\ pc' = "simplify_again"
  /\ UNCHANGED resolution
  /\ UNCHANGED <<forms, input, locals, functions, data_extends, decoded,
                 text, value, result>>

NextSimplify == Simplify \/ SimplifyAgain

SpecSimplify == InitSimplify /\ [][NextSimplify]_vars

(***************************************************************************)
(* Runs of the decode layer on a value.  The values are recipe and         *)
(* ingredient tables in which every optional key is absent, present with   *)
(* the right shape, or present with a wrong shape, and containers nested   *)
(* up to two levels with good and bad leaves.                              *)
(***************************************************************************)
Absent == [tag |-> "Absent"]

\* The one-key table key = v, or nothing when v is Absent.
Field(key, v) == IF v = Absent THEN EmptyMap ELSE (key :> v)

CategoryChoices == {Absent, ObjStr(<<"s">>), ObjInt(3)}
EnabledChoices == {Absent, ObjBool(FALSE), ObjStr(<<"n">>)}
EnergyChoices == {Absent, ObjInt(2), ObjStr(<<"e">>)}
NormalChoices == {"absent", "table", "wrong", "wrong_only"}
AmountChoices == {Absent, ObjInt(5), ObjStr(<<"m">>)}
TypeChoices == {Absent, ObjStr(<<"f">>), ObjInt(7)}

\* The fields of a recipe body.
BodyFields(enabled, energy) ==
  (K_result :> ObjStr(<<"p">>)) @@ (K_ingredients :> ObjArray(<<>>))
    @@ Field(K_enabled, enabled) @@ Field(K_energy_required, energy)

RecipeValue(category, enabled, energy, normal) ==
  ObjMap((K_name :> ObjStr(<<"r">>)) @@ Field(K_category, category)
    @@ CASE normal = "absent" -> BodyFields(enabled, energy)
         [] normal = "table" -> (K_normal :> ObjMap(BodyFields(enabled, energy)))
         [] normal = "wrong" ->
              (K_normal :> ObjInt(1)) @@ BodyFields(enabled, energy)
         [] normal = "wrong_only" -> (K_normal :> ObjInt(1)))

RecipeValues ==
  {RecipeValue(c, e, g, n) :
     c \in CategoryChoices, e \in EnabledChoices, g \in EnergyChoices,
     n \in NormalChoices}

IngredientValue(amount, type_) ==
  ObjMap((K_name :> ObjStr(<<"i">>)) @@ Field(K_amount, amount)
    @@ Field(K_type, type_))

IngredientValues ==
  {IngredientValue(a, t) : a \in AmountChoices, t \in TypeChoices}
    \cup {ObjArray(<<ObjStr(<<"i">>), ObjInt(2)>>),
          ObjArray(<<ObjStr(<<"i">>), ObjStr(<<"m">>)>>)}

\* Containers of up to MaxPieces children, each child a leaf or an array of
\* up to MaxPieces leaves.
LeafChoices == {ObjInt(1), ObjStr(<<"s">>)}
InnerArrays == {ObjArray(a) : a \in Tuples(LeafChoices, 0, MaxPieces)}
Children == LeafChoices \cup InnerArrays
KeyNames == <<<<"k">>, <<"j">>, <<"h">>>>
ContainerValues ==
  {ObjArray(a) : a \in Tuples(Children, 1, MaxPieces)}
    \cup {ObjMap([k \in {KeyNames[i] : i \in 1..Len(a)} |->
                   a[CHOOSE i \in 1..Len(a) : KeyNames[i] = k]]) :
            a \in Tuples(Children, 1, MaxPieces)}

DecodeValues == RecipeValues \cup IngredientValues \cup ContainerValues

InitDecode ==
  /\ NoFile
  /\ NoGoal
  /\ text = <<>>
  /\ value \in DecodeValues
  /\ result = None
  /\ again = None
  /\ pc = "lua"

\* T::try_from(value), the target type named by the position reached.
DecodeAs(T, at) ==
  /\ pc = "lua"
  /\ result' = try_from(T, value)
  /\ pc' = at
  /\ UNCHANGED resolution
  /\ UNCHANGED <<forms, input, locals, functions, data_extends, decoded,
                 text, value, again>>

DecodeRecipe == DecodeAs(T_Recipe, "Recipe")
DecodeIngredient == DecodeAs(T_Ingredient, "Ingredient")

DecodeVecVec == DecodeAs(T_Vec(T_Vec(T_i64)), "Vec<Vec<i64>>")
DecodeVecPair == DecodeAs(T_Vec(T_Pair(T_String, T_i64)), "Vec<(String, i64)>")
DecodePair == DecodeAs(T_Pair(T_String, T_Vec(T_i64)), "(String, Vec<i64>)")
DecodeSet == DecodeAs(T_HashSet(T_Vec(T_i64)), "HashSet<Vec<i64>>")

\* HashMap::<String, Vec<i64>>::try_from(value).
DecodeMapVec ==
  /\ pc = "lua"
  /\ result' \in HashMap_T_try_from(T_Vec(T_i64), value)
  /\ pc' = "HashMap<String, Vec<i64>>"
  /\ UNCHANGED resolution
  /\ UNCHANGED <<forms, input, locals, functions, data_extends, decoded,
                 text, value, again>>

NextDecode ==
  \/ DecodeRecipe
  \/ DecodeIngredient
  \/ DecodeVecVec
  \/ DecodeVecPair
  \/ DecodePair
  \/ DecodeSet
  \/ DecodeMapVec

SpecDecode == InitDecode /\ [][NextDecode]_vars

(***************************************************************************)
(* Runs of a single grammar rule on a text put together from lexemes.      *)
(***************************************************************************)
\* Insignificant text: blanks, line ends, comment markers, comment text.
SkipPieces ==
  {<<" ">>, <<Newline>>, <<CarriageReturn>>, <<"-", "-">>, <<"-">>, <<"c">>}
SkipTexts == {Concat(ps) : ps \in Tuples(SkipPieces, 0, MaxLexPieces)}

\* Values, expressions, statements and functions, each followed by up to
\* MaxPieces pieces of insignificant text.
RuleHeads ==
  {<<"1">>,
   <<"x">>,
   <<"(", "1", ")">>,
   <<"(", " ", "x", " ", ")">>,
   <<"(", "1", " ", "+", " ", "x", ")">>,
   <<"x", " ", "=", " ", "1">>,
   <<"r", "e", "t", "u", "r", "n", " ", "x">>,
   <<"f", "(", "1", ")">>,
   <<"#", "x">>,
   <<"{", "1", "}">>,
   <<Quote, "s", Quote>>,
   <<"f", "u", "n", "c", "t", "i", "o", "n", " ", "f", "(", ")", " ",
    "r", "e", "t", "u", "r", "n", " ", "1", " ", "e", "n", "d">>,
   <<"f", "u", "n", "c", "t", "i", "o", "n", " ", "(", ")", " ", "r",
    "e", "t", "u", "r", "n", " ", "1", " ", "e", "n", "d">>,
   <<"i", "f", " ", "x", " ", "t", "h", "e", "n", " ", "y", " ", "=",
    " ", "1", " ", "e", "n", "d">>}
TailPieces == {<<" ">>, <<Newline>>, <<"-", "-", "c">>, <<"-", "-">>}
RuleTexts ==
  {h \o Concat(ps) : h \in RuleHeads, ps \in Tuples(TailPieces, 0, MaxPieces)}

\* Runs of digits, dots and dashes, with blanks between them.
NumPieces == {<<"1">>, <<".">>, <<"-">>, <<"2", ".", "5">>, <<" ">>}
NumTexts == {Concat(ps) : ps \in Tuples(NumPieces, 0, MaxLexPieces)}

\* Assignment targets: a dotted name followed by up to MaxPieces subscripts,
\* alone and as the target of an assignment.
TargetBases ==
  {[text |-> <<"a">>, path |-> <<<<"a">>>>],
   [text |-> <<"a", ".", "b">>, path |-> <<<<"a">>, <<"b">>>>]}
TargetIndexes ==
  {[text |-> <<"1">>, expr |-> Literal(ObjInt(1))],
   [text |-> <<"i">>, expr |-> Literal(ObjExpr(Var(<<<<"i">>>>)))]}
Targets ==
  {[base |-> b, indexes |-> is] :
     b \in TargetBases, is \in Tuples(TargetIndexes, 1, MaxPieces)}

TargetText(t) ==
  t.base.text
    \o Concat([k \in 1..Len(t.indexes) |-> <<"[">> \o t.indexes[k].text \o <<"]">>])
AssignText(t) == TargetText(t) \o <<" ", "=", " ", "3">>
TargetTexts == {TargetText(t) : t \in Targets} \cup {AssignText(t) : t \in Targets}

LexTexts == SkipTexts \cup RuleTexts \cup NumTexts \cup TargetTexts

InitLex ==
  /\ NoFile
  /\ NoGoal
  /\ text \in LexTexts
  /\ value = None
  /\ result = None
  /\ again = None
  /\ pc = "lex"

\* The rule of the given kind called on the text.
CallRule(kind) ==
  /\ pc = "lex"
  /\ result' = parse(kind, text)
  /\ pc' = kind
  /\ UNCHANGED resolution
  /\ UNCHANGED <<forms, input, locals, functions, data_extends, decoded,
                 text, value, again>>

CallWhitespace == CallRule("whitespace")

\* whitespace called on the remainder whitespace returned.
WhitespaceAgain ==
  /\ pc = "whitespace"
  /\ result.st = "ok"
  /\ again' = parse("whitespace", result.rest)
  /\ pc' = "whitespace_again"
  /\ UNCHANGED resolution
  /\ UNCHANGED <<forms, input, locals, functions, data_extends, decoded,
                 text, value, result>>

CallNum == CallRule("num")
CallLvalue == CallRule("lvalue")
CallObject == CallRule("object")
CallExpr == CallRule("expr")
CallStmt == CallRule("stmt")
CallNamedFunction == CallRule("named_function")
CallAnonFunction == CallRule("anon_function")

NextLex ==
  \/ CallWhitespace
  \/ WhitespaceAgain
  \/ CallNum
  \/ CallLvalue
  \/ CallObject
  \/ CallExpr
  \/ CallStmt
  \/ CallNamedFunction
  \/ CallAnonFunction

SpecLex == InitLex /\ [][NextLex]_vars

(***************************************************************************)
(* Runs of parse_expr on a chain of binary operations: up to MaxOperands   *)
(* value literals with an operator between each two, written with one      *)
(* blank around every operator.  forms names the lexemes of the chain.     *)
(***************************************************************************)
ValueIds == {"1", "-2", "s"}
OpIds == {"+", "-", "*", "/", "..", "==", "~="}

\* The text of a lexeme, and what it denotes.
Lexeme(id) ==
  CASE id = "1" -> [text |-> <<"1">>, obj |-> ObjInt(1)]
    [] id = "-2" -> [text |-> <<"-", "2">>, obj |-> ObjInt(-2)]
    [] id = "s" -> [text |-> <<Quote, "s", Quote>>, obj |-> ObjStr(<<"s">>)]
    [] id = "+" -> [text |-> <<"+">>, kind |-> "Plus"]
    [] id = "-" -> [text |-> <<"-">>, kind |-> "Minus"]
    [] id = "*" -> [text |-> <<"*">>, kind |-> "Times"]
    [] id = "/" -> [text |-> <<"/">>, kind |-> "Divide"]
    [] id = ".." -> [text |-> W_dotdot, kind |-> "DotDot"]
    [] id = "==" -> [text |-> W_eqeq, kind |-> "EqEq"]
    [] id = "~=" -> [text |-> W_tildeeq, kind |-> "TildeEq"]

Chains ==
  UNION {{[i \in 1..(2 * n - 1) |-> IF i % 2 = 1 THEN vs[(i + 1) \div 2]
                                     ELSE ops[i \div 2]] :
            vs \in [1..n -> ValueIds], ops \in [1..(n - 1) -> OpIds]} :
         n \in 2..MaxOperands}

RECURSIVE ChainText(_)
ChainText(chain) ==
  IF Len(chain) = 1 THEN Lexeme(chain[1]).text
  ELSE Lexeme(chain[1]).text \o <<" ">> \o ChainText(Tail(chain))

InitBinop ==
  /\ forms \in Chains
  /\ input = <<>>
  /\ locals = new.locals
  /\ functions = new.functions
  /\ data_extends = new.data_extends
  /\ decoded = <<>>
  /\ text = ChainText(forms)
  /\ value = None
  /\ result = None
  /\ again = None
  /\ NoGoal
  /\ pc = "chain"

\* parse_expr called on the text of the chain.
CallParseExpr ==
  /\ pc = "chain"
  /\ result' = parse("expr", text)
  /\ pc' = "parse_expr"
  /\ UNCHANGED resolution
  /\ UNCHANGED <<forms, input, locals, functions, data_extends, decoded,
                 text, value, again>>

NextBinop == CallParseExpr

SpecBinop == InitBinop /\ [][NextBinop]_vars

(***************************************************************************)
(* main's requirement resolution.  A rate (f64, products per second) is    *)
(* kept as the exact fraction num/den in lowest terms; the loop never      *)
(* branches on a rate.  A recipe's speed is a fraction of the same shape.  *)
(***************************************************************************)
MaxRecipes == 2
MaxQueue == 4
MaxRate == 200

RECURSIVE gcd(_, _)
gcd(a, b) == IF b = 0 THEN a ELSE gcd(b, a % b)

Rate(n, d) == LET g == gcd(n, d) IN [num |-> n \div g, den |-> d \div g]

\* "speed * (ingredient.amount as f64) / (output_amount as f64)".
rate_scale(r, amount, output_amount) ==
  Rate(r.num * amount, r.den * output_amount)

\* "*req += speed".
rate_add(a, b) == Rate(a.num * b.den + b.num * a.den, a.den * b.den)

\* a.speed.partial_cmp(&b.speed) = Less.
speed_less(a, b) == a.speed.num * b.speed.den < b.speed.num * a.speed.den

\* The map is filled from the decoded recipes: every recipe is filed under
\* the name of each of its results, in the order read.
RECURSIVE file_outputs(_, _, _)
file_outputs(map, recipe, i) ==
  IF i > Len(recipe.results) THEN map
  ELSE LET name == recipe.results[i].name
       IN file_outputs(
            IF name \in DOMAIN map
            THEN [map EXCEPT ![name] = push(@, recipe)]
            ELSE insert(map, name, <<recipe>>),
            recipe, i + 1)

RECURSIVE file_recipes(_, _, _)
file_recipes(map, raw_recipes, i) ==
  IF i > Len(raw_recipes) THEN map
  ELSE file_recipes(file_outputs(map, raw_recipes[i], 1), raw_recipes, i + 1)

productivity_allowed ==
  {"sulfuric-acid", "basic-oil-processing", "advanced-oil-processing",
   "coal-liquefaction", "heavy-oil-cracking", "light-oil-cracking",
   "solid-fuel-from-light-oil", "solid-fuel-from-heavy-oil",
   "solid-fuel-from-petroleum-gas", "lubricant", "iron-plate",
   "copper-plate", "steel-plate", "stone-brick", "sulfur", "plastic-bar",
   "empty-barrel", "uranium-processing", "copper-cable", "iron-stick",
   "iron-gear-wheel", "electronic-circuit", "advanced-circuit",
   "processing-unit", "engine-unit", "electric-engine-unit",
   "uranium-fuel-cell", "explosives", "battery", "flying-robot-frame",
   "low-density-structure", "rocket-fuel", "nuclear-fuel",
   "nuclear-fuel-reprocessing", "rocket-control-unit", "rocket-part",
   "automation-science-pack", "logistic-science-pack",
   "chemical-science-pack", "military-science-pack",
   "production-science-pack", "utility-science-pack",
   "kovarex-enrichment-process"}

\* The productivity of each module, in hundredths.
module_bonuses ==
  ("speed-module" :> 0) @@ ("speed-module-2" :> 0) @@ ("speed-module-3" :> 0)
  @@ ("efficiency-module" :> 0) @@ ("efficiency-module-2" :> 0)
  @@ ("efficiency-module-3" :> 0) @@ ("productivity-module" :> 4)
  @@ ("productivity-module-2" :> 6) @@ ("productivity-module-3" :> 10)

modules_allowed ==
  ("advanced-crafting" :> 4) @@ ("centrifuging" :> 2) @@ ("chemistry" :> 3)
  @@ ("crafting" :> 4) @@ ("crafting-with-fluid" :> 4)
  @@ ("oil-processing" :> 3) @@ ("rocket-building" :> 4)
  @@ ("smelting" :> 2)

\* min_by: the first of the recipes of least speed.
fastest_of(recipes) ==
  recipes[CHOOSE i \in 1..Len(recipes) :
            /\ \A j \in 1..Len(recipes) : ~speed_less(recipes[j], recipes[i])
            /\ \A j \in 1..(i - 1) : speed_less(recipes[i], recipes[j])]

\* The amount of the first result that is the product.
output_amount_of(fastest, p) ==
  fastest.results[CHOOSE i \in 1..Len(fastest.results) :
                    /\ fastest.results[i].name = p
                    /\ \A j \in 1..(i - 1) : fastest.results[j].name # p
                 ].amount

\* The sum of the productivity of as many productivity-module-3 as the
\* recipe's category allows, in hundredths.
module_effect(fastest) ==
  modules_allowed[fastest.category] * module_bonuses["productivity-module-3"]

\* "modules_allowed.get(&fastest.category).expect(..)" finds no entry.
unknown_category(fastest) ==
  /\ fastest.ingredients # <<>>
  /\ fastest.name \in productivity_allowed
  /\ fastest.category \notin DOMAIN modules_allowed

modded_rate(r, ingredient, output_amount, fastest) ==
  LET base == rate_scale(r, ingredient.amount, output_amount)
  IN IF fastest.name \in productivity_allowed
     THEN Rate(base.num * 100, base.den * (100 + module_effect(fastest)))
     ELSE base

\* The pairs one iteration pushes: one per ingredient of the chosen recipe.
pushed(fastest, p, r) ==
  [i \in 1..Len(fastest.ingredients) |->
     <<fastest.ingredients[i].name,
       modded_rate(r, fastest.ingredients[i],
                   output_amount_of(fastest, p), fastest)>>]

\* The else branch: the rate is added to the product's requirement.
require(reqs, p, r) ==
  IF p \in DOMAIN reqs THEN [reqs EXCEPT ![p] = rate_add(@, r)]
  ELSE insert(reqs, p, r)

\* The recipes the maps are built from: a chain from ore to gear wheel with
\* two ways to make a plate, the enrichment that returns more of its own
\* input, a crate packed and unpacked, a tree grown from a tree, a recipe
\* whose category allows no modules, and one with no ingredients.
Item(name, amount) == Ingredient(name, amount, "item")
Speed(n, d) == [num |-> n, den |-> d]

R_plate ==
  Recipe("iron-plate", "smelting", TRUE, <<Item("iron-ore", 1)>>,
         Speed(10, 32), <<Item("iron-plate", 1)>>)
R_scrap ==
  Recipe("scrap-smelting", "smelting", TRUE, <<Item("scrap", 2)>>,
         Speed(10, 64), <<Item("iron-plate", 1)>>)
R_gear ==
  Recipe("iron-gear-wheel", "crafting", TRUE, <<Item("iron-plate", 2)>>,
         Speed(10, 5), <<Item("iron-gear-wheel", 1)>>)
R_kovarex ==
  Recipe("kovarex-enrichment-process", "centrifuging", FALSE,
         <<Item("uranium-235", 40), Item("uranium-238", 5)>>,
         Speed(1, 60),
         <<Item("uranium-235", 41), Item("uranium-238", 2)>>)
R_pack ==
  Recipe("pack", "crafting", TRUE, <<Item("plank", 1)>>,
         Speed(1, 1), <<Item("crate", 1)>>)
R_unpack ==
  Recipe("unpack", "crafting", TRUE, <<Item("crate", 1)>>,
         Speed(1, 1), <<Item("plank", 1)>>)
R_grow ==
  Recipe("grow", "crafting", TRUE, <<Item("wood", 1)>>,
         Speed(1, 10), <<Item("wood", 1)>>)
R_stick ==
  Recipe("iron-stick", "manual", TRUE, <<Item("iron-plate", 1)>>,
         Speed(10, 5), <<Item("iron-stick", 2)>>)
R_fish ==
  Recipe("fishing", "crafting", TRUE, <<>>,
         Speed(1, 1), <<Item("raw-fish", 1)>>)

Library ==
  {R_plate, R_scrap, R_gear, R_kovarex, R_pack, R_unpack, R_grow, R_stick,
   R_fish}

RecipeLists ==
  {rs \in Tuples(Library, 1, MaxRecipes) :
     \A i, j \in 1..Len(rs) : i # j => rs[i] # rs[j]}

Products ==
  UNION {{r.results[i].name : i \in 1..Len(r.results)}
           \cup {r.ingredients[i].name : i \in 1..Len(r.ingredients)} :
         r \in Library}

\* "let goal = (.., 1f64)" with any product for the goal, the empty
\* requirements, and the queue holding the goal.
InitMain ==
  /\ NoFile
  /\ Idle
  /\ \E raw_recipes \in RecipeLists :
       recipe_map = file_recipes(EmptyMap, raw_recipes, 1)
  /\ \E p \in Products : goal = <<p, Rate(1, 1)>>
  /\ requirements = EmptyMap
  /\ todo_requirements = <<goal>>
  /\ product = None
  /\ speed = None
  /\ pc = "while"

Parsing == <<forms, input, locals, functions, data_extends, decoded,
             text, value, result, again>>

\* "while !todo_requirements.is_empty()" finds a pair and pops it.
Pop ==
  /\ pc = "while"
  /\ todo_requirements # <<>>
  /\ product' = Head(todo_requirements)[1]
  /\ speed' = Head(todo_requirements)[2]
  /\ todo_requirements' = Tail(todo_requirements)
  /\ pc' = "body"
  /\ UNCHANGED <<recipe_map, goal, requirements>>
  /\ UNCHANGED Parsing

\* The loop finds the queue empty and ends.
Drained ==
  /\ pc = "while"
  /\ todo_requirements = <<>>
  /\ pc' = "done"
  /\ UNCHANGED resolution
  /\ UNCHANGED Parsing

\* The rates and the queue an iteration would leave are within the bounds.
Small(r) == r.num <= MaxRate /\ r.den <= MaxRate

\* The iteration that has popped its pair is the one that panics.
Panics ==
  /\ product \in DOMAIN recipe_map
  /\ unknown_category(fastest_of(recipe_map[product]))

WithinBounds ==
  IF Panics THEN TRUE
  ELSE IF product \in DOMAIN recipe_map
  THEN LET ps == pushed(fastest_of(recipe_map[product]), product, speed)
       IN /\ Len(todo_requirements) + Len(ps) <= MaxQueue
          /\ \A i \in 1..Len(ps) : Small(ps[i][2])
  ELSE Small(require(requirements, product, speed)[product])

\* The product has recipes: one pair per ingredient of the chosen one is
\* pushed.
Resolve ==
  /\ pc = "body"
  /\ product \in DOMAIN recipe_map
  /\ ~Panics
  /\ WithinBounds
  /\ todo_requirements' =
       todo_requirements
         \o pushed(fastest_of(recipe_map[product]), product, speed)
  /\ product' = None
  /\ speed' = None
  /\ pc' = "while"
  /\ UNCHANGED <<recipe_map, goal, requirements>>
  /\ UNCHANGED Parsing

\* The chosen recipe takes modules and its category is not listed: the
\* expect panics at the first ingredient, before anything is pushed.
UnknownCategory ==
  /\ pc = "body"
  /\ Panics
  /\ pc' = "panic"
  /\ UNCHANGED resolution
  /\ UNCHANGED Parsing

\* The product has no recipe: it is a raw requirement.
Require ==
  /\ pc = "body"
  /\ product \notin DOMAIN recipe_map
  /\ WithinBounds
  /\ requirements' = require(requirements, product, speed)
  /\ product' = None
  /\ speed' = None
  /\ pc' = "while"
  /\ UNCHANGED <<recipe_map, goal, todo_requirements>>
  /\ UNCHANGED Parsing

NextMain == Pop \/ Drained \/ Resolve \/ UnknownCategory \/ Require

SpecMain == InitMain /\ [][NextMain]_vars

\* main is sequential code: a step that can be taken is taken.
FairMain == SpecMain /\ WF_vars(NextMain)

(***************************************************************************)
(* The file as written, against the pass over it.  A form is consumed      *)
(* once the pass has moved past its last character; what a form denotes    *)
(* is read from its own text.                                              *)
(***************************************************************************)
Consumed == Len(FileText(forms)) - Len(input)
EndOf(k) == Len(FileText(SubSeq(forms, 1, k)))
FormsConsumed == Cardinality({k \in 1..Len(forms) : EndOf(k) <= Consumed})

KindAt(k) == Form(forms[k]).kind
ExtendArg(id) == parse("object", Drop(Form(id).text, Len(W_data_extend))).val
LocalOf(id) == parse("local", Form(id).text).val
FunctionOf(id) == parse("named_function", Form(id).text).val

RECURSIVE ExtendArgs(_)
ExtendArgs(k) ==
  IF k = 0 THEN <<>>
  ELSE IF KindAt(k) = "extend" THEN Append(ExtendArgs(k - 1), ExtendArg(forms[k]))
  ELSE ExtendArgs(k - 1)

\* The last of the first k forms that is a form of this kind for this name.
LastOf(kind, name, k) ==
  CHOOSE i \in 1..k :
    /\ KindAt(i) = kind
    /\ (IF kind = "local" THEN LocalOf(forms[i]) ELSE FunctionOf(forms[i]))[1] = name
    /\ \A j \in (i + 1)..k :
         KindAt(j) = kind =>
           (IF kind = "local" THEN LocalOf(forms[j]) ELSE FunctionOf(forms[j]))[1] # name

LocalNames(k) == {LocalOf(forms[i])[1] : i \in {j \in 1..k : KindAt(j) = "local"}}
FunctionNames(k) ==
  {FunctionOf(forms[i])[1] : i \in {j \in 1..k : KindAt(j) = "function"}}

LastLocals(k) ==
  [n \in LocalNames(k) |-> LocalOf(forms[LastOf("local", n, k)])[2]]
LastFunctions(k) ==
  [n \in FunctionNames(k) |-> FunctionOf(forms[LastOf("function", n, k)])[2]]

Tables == <<locals, functions, data_extends>>

(***************************************************************************)
(* C1.  No partial commit: a parse_toplevel call that fails leaves locals, *)
(* functions and data_extends exactly as they were before the call, and    *)
(* when parse_all has failed the three tables hold exactly what the forms  *)
(* consumed before the failing attempt put there.                          *)
(***************************************************************************)
C1_NoPartialCommit ==
  /\ [][pc = "parse_all" /\ pc' = "err" => UNCHANGED Tables]_vars
  /\ [](pc = "err" =>
          /\ locals = LastLocals(FormsConsumed)
          /\ functions = LastFunctions(FormsConsumed)
          /\ data_extends = ExtendArgs(FormsConsumed))

\* A pass that failed after forms of all three kinds were committed.
C1_Witness ==
  /\ pc = "err"
  /\ input # <<>>
  /\ \/ DOMAIN locals # {}
     \/ DOMAIN functions # {}
     \/ data_extends # <<>>

(***************************************************************************)
(* C2.  Registration order: at every point of the pass data_extends is the *)
(* sequence of the arguments of the data:extend calls consumed so far, in  *)
(* file order, one entry per call, and a step only ever appends to it.     *)
(***************************************************************************)
AppendOnly ==
  \/ data_extends' = data_extends
  \/ /\ Len(data_extends') = Len(data_extends) + 1
     /\ SubSeq(data_extends', 1, Len(data_extends)) = data_extends

C2_RegistrationOrder ==
  /\ [](data_extends = ExtendArgs(FormsConsumed))
  /\ [][AppendOnly]_vars

\* Two calls with different arguments, both consumed.
C2_Witness ==
  /\ pc = "ok"
  /\ Len(data_extends) = 2
  /\ data_extends[1] # data_extends[2]

(***************************************************************************)
(* C3.  End-to-end recipe extraction: after the pass over the file made of *)
(* the single call data:extend({ { name = "a", ingredients = {{"b", 1}},   *)
(* results = {{"a", 1}} } }), data_extends has one entry, and decoding it  *)
(* as a sequence of Recipe records succeeds with one Recipe: name "a",     *)
(* category "crafting", enabled, one ingredient "b" x 1, one result        *)
(* "a" x 1.                                                                *)
(***************************************************************************)
C3_RecipeExtraction ==
  pc = "decoded" /\ forms = <<"Recipe">> =>
    /\ Len(data_extends) = 1
    /\ decoded[1].ok
    /\ Len(decoded[1].val) = 1
    /\ decoded[1].val[1].name = <<"a">>
    /\ decoded[1].val[1].category = K_crafting
    /\ decoded[1].val[1].enabled
    /\ decoded[1].val[1].ingredients = <<Ingredient(<<"b">>, 1, K_item)>>
    /\ decoded[1].val[1].results = <<Ingredient(<<"a">>, 1, K_item)>>

(***************************************************************************)
(* C8.  All-or-nothing pass: a pass that has stopped either returned       *)
(* failure, at the first position where none of the four alternatives      *)
(* matched, or returned success with nothing left of the input.            *)
(***************************************************************************)
C8_AllOrNothing ==
  /\ pc \notin {"parse_all", "err"} => pc \in {"ok", "decoded"} /\ input = <<>>
  /\ pc = "err" => parse_toplevel(self, input).st = "err"

(***************************************************************************)
(* C9.  Last write wins: after a successful pass locals maps every name    *)
(* bound by a top-level local form to the expression of the last such form *)
(* in file order, functions maps every name defined by a top-level         *)
(* function form to its last definition, and neither table has any other   *)
(* entry.                                                                  *)
(***************************************************************************)
C9_LastWriteWins ==
  pc \in {"ok", "decoded"} =>
    /\ locals = LastLocals(Len(forms))
    /\ functions = LastFunctions(Len(forms))

\* A successful pass over a file that binds the same name twice, to
\* different expressions or definitions.
C9_Witness ==
  /\ pc = "ok"
  /\ Len(forms) = 2
  /\ \/ /\ KindAt(1) = "local" /\ KindAt(2) = "local"
        /\ LocalOf(forms[1])[1] = LocalOf(forms[2])[1]
        /\ LocalOf(forms[1])[2] # LocalOf(forms[2])[2]
        /\ DOMAIN locals = {LocalOf(forms[1])[1]}
     \/ /\ KindAt(1) = "function" /\ KindAt(2) = "function"
        /\ FunctionOf(forms[1]) # FunctionOf(forms[2])
        /\ DOMAIN functions = {FunctionOf(forms[1])[1]}

(***************************************************************************)
(* C10.  Frame of a top-level step: a step that matches a data:extend call *)
(* changes only data_extends, one that matches a local binding only        *)
(* locals, one that matches a named function definition only functions,    *)
(* and one that matches the statement alternative changes none of the      *)
(* three.                                                                  *)
(***************************************************************************)
MatchedKind(kind) == parse(kind, input).st = "ok"

FrameOfStep ==
  IF MatchedKind("data_extend") THEN UNCHANGED <<locals, functions>>
  ELSE IF MatchedKind("local") THEN UNCHANGED <<functions, data_extends>>
  ELSE IF MatchedKind("named_function") THEN UNCHANGED <<locals, data_extends>>
  ELSE UNCHANGED Tables

C10_Frame == [][pc = "parse_all" /\ pc' \in {"parse_all", "ok"} => FrameOfStep]_vars

\* A successful pass over an assignment without local, or an if whose
\* branches hold local bindings, or an anonymous function, next to a form
\* that does change a table.
C10_Witness ==
  /\ pc = "ok"
  /\ Len(forms) = 2
  /\ KindAt(1) = "stmt"
  /\ KindAt(2) \in {"extend", "local", "function"}
  /\ Cardinality(DOMAIN locals) + Cardinality(DOMAIN functions)
       + Len(data_extends) = 1

(***************************************************************************)
(* C4.  Plain literal elements are stored as plain values: parse_object on *)
(* {1, 2, 3} yields Array[Int 1, Int 2, Int 3], on {name = "foo",          *)
(* amount = 2} the Map name -> Str "foo", amount -> Int 2, and no element  *)
(* or field value written as a literal comes out as an Expr node.          *)
(***************************************************************************)
\* An Expr node that holds nothing but a Bool, Int, Float, Str, Array or Map.
IsLiteralNode(o) ==
  o.tag = "Expr" /\ o.expr.tag = "Literal" /\ o.expr.obj.tag # "Expr"

C4_PlainElements ==
  pc = "parse_object" /\ result.st = "ok" =>
    /\ text = Text_Array123 =>
         result.val = ObjArray(<<ObjInt(1), ObjInt(2), ObjInt(3)>>)
    /\ text = Text_MapFoo =>
         result.val = ObjMap((K_name :> ObjStr(<<"f","o","o">>))
                               @@ (K_amount :> ObjInt(2)))
    /\ result.val.tag = "Array" =>
         \A i \in 1..Len(result.val.array) : ~IsLiteralNode(result.val.array[i])
    /\ result.val.tag = "Map" =>
         \A k \in DOMAIN result.val.map : ~IsLiteralNode(result.val.map[k])

(***************************************************************************)
(* C5.  String literal round trip: parse_str on a quote, a text s with no  *)
(* quote and no backslash in it (the empty text included), and a quote     *)
(* succeeds with Str(s) and nothing left.                                  *)
(***************************************************************************)
PlainBody(s) == \A i \in 1..Len(s) : s[i] \notin {Quote, Backslash}
Body(t) == SubSeq(t, 2, Len(t) - 1)
IsPlainLiteral(t) ==
  /\ Len(t) >= 2
  /\ t[1] = Quote
  /\ t[Len(t)] = Quote
  /\ PlainBody(Body(t))

C5_StringRoundTrip ==
  pc = "parse_str" /\ IsPlainLiteral(text) => result = Ok(ObjStr(Body(text)), <<>>)

\* The empty literal and a literal of full length with a space, a dash or a
\* line break in it have both been parsed.
C5_Witness ==
  /\ pc = "parse_str"
  /\ IsPlainLiteral(text)
  /\ result.st = "ok"
  /\ Len(text) = 2 + MaxTextLen
  /\ \E i \in 1..Len(text) : text[i] \in {" ", "-", Newline}

(***************************************************************************)
(* C6.  Boolean token exactness: when parse_object yields Bool(b), the     *)
(* text starts with the whole token true or false, that is, the token is   *)
(* not followed by a character that continues a name; a name that only     *)
(* begins with those letters comes out as a bare name.                     *)
(***************************************************************************)
BoolToken(b) == IF b THEN W_true ELSE W_false

C6_BoolTokenExact ==
  pc = "parse_object" /\ result.st = "ok" /\ result.val.tag = "Bool" =>
    /\ StartsWith(text, BoolToken(result.val.bool))
    /\ Len(text) > Len(BoolToken(result.val.bool)) =>
         text[Len(BoolToken(result.val.bool)) + 1] \notin IdentChar

(***************************************************************************)
(* C7.  simplify is idempotent, simplify(simplify(v)) = simplify(v), and   *)
(* distributes into containers: the simplify of an Array is the Array of   *)
(* the simplified elements, the simplify of a Map has the same keys, each  *)
(* with the simplify of its value.                                         *)
(***************************************************************************)
C7_SimplifyIdempotent ==
  /\ pc = "simplify_again" => again = result
  /\ pc # "value" /\ value.tag = "Array" =>
       /\ result.tag = "Array"
       /\ Len(result.array) = Len(value.array)
       /\ \A i \in 1..Len(value.array) : result.array[i] = simplify(value.array[i])
  /\ pc # "value" /\ value.tag = "Map" =>
       /\ result.tag = "Map"
       /\ DOMAIN result.map = DOMAIN value.map
       /\ \A k \in DOMAIN value.map : result.map[k] = simplify(value.map[k])

\* A container holding a literal wrapper around a literal wrapper has been
\* simplified twice.
C7_Witness ==
  /\ pc = "simplify_again"
  /\ value.tag \in {"Array", "Map"}
  /\ result # value
  /\ \E v \in Values(0) :
       \/ value = ObjArray(<<ObjExpr(Literal(ObjExpr(Literal(v))))>>)
       \/ value = ObjMap((<<"k">> :> ObjExpr(Literal(ObjExpr(Literal(v))))))

(***************************************************************************)
(* C11.  Defaults only for absent keys: decoding a Recipe or an Ingredient *)
(* from a table applies a default (category "crafting", enabled true,      *)
(* energy_required 1, amount 1, type "item", the top-level fields in place *)
(* of the normal sub-record) only when the key is absent; a key that is    *)
(* present with a value of the wrong shape makes the decode fail.          *)
(***************************************************************************)
\* The key is present in the table m with a value that conv rejects.
Malformed(m, key, T) == Has(m, key) /\ ~try_from(T, m[key]).ok

\* The table the recipe body is read from when normal is a table or absent.
BodyOf(m) ==
  IF Has(m, K_normal) /\ m[K_normal].tag = "Map" THEN m[K_normal].map ELSE m

C11_DefaultsOnlyForAbsent ==
  /\ pc = "Recipe" /\ value \in RecipeValues =>
       /\ Malformed(value.map, K_category, T_String) => ~result.ok
       /\ Malformed(BodyOf(value.map), K_enabled, T_bool) => ~result.ok
       /\ Malformed(BodyOf(value.map), K_energy_required, T_f64) => ~result.ok
       /\ Has(value.map, K_normal) /\ value.map[K_normal].tag # "Map" =>
            ~result.ok
       /\ result.ok /\ ~Has(value.map, K_category) =>
            result.val.category = K_crafting
       /\ result.ok /\ ~Has(BodyOf(value.map), K_enabled) =>
            result.val.enabled = TRUE
       /\ result.ok /\ ~Has(BodyOf(value.map), K_energy_required) =>
            result.val.speed = f64_recip(f64_from_i64(1))
  /\ pc = "Ingredient" /\ value \in IngredientValues /\ value.tag = "Map" =>
       /\ Malformed(value.map, K_amount, T_i64) => ~result.ok
       /\ Malformed(value.map, K_type, T_String) => ~result.ok
       /\ result.ok /\ ~Has(value.map, K_amount) => result.val.amount = 1
       /\ result.ok /\ ~Has(value.map, K_type) => result.val.type_ = K_item

(***************************************************************************)
(* C12.  Accumulating error path: when a container conversion (keyed       *)
(* table, sequence, 2-element tuple, set) fails because an element fails   *)
(* to convert, the failure text of the outer conversion names the key or   *)
(* index of that element and includes the element's own failure text; so   *)
(* for two levels the text names both levels down to the failing leaf.     *)
(***************************************************************************)
IsSuffix(t, s) == Len(t) <= Len(s) /\ Drop(s, Len(s) - Len(t)) = t

IsInfix(t, s) ==
  \E i \in 0..(Len(s) - Len(t)) : Take(Drop(s, i), Len(t)) = t

\* The failure text err of a sequence-like conversion names the child at
\* index i (counted from 0) and ends with that child's failure text.
PathThroughIndex(err, i, inner) ==
  /\ ~inner.ok
  /\ IsInfix(<<IndexText(i)>>, err)
  /\ IsSuffix(inner.err, err)
  /\ Len(err) > Len(inner.err)

\* The same for the entry under key k of a table.
PathThroughKey(err, k, inner) ==
  /\ ~inner.ok
  /\ IsInfix(k, err)
  /\ IsSuffix(inner.err, err)
  /\ Len(err) > Len(inner.err)

\* The children of the array convert under E with some failure, and err
\* carries the path through one failing child.
ArrayPath(E, array, err) ==
  \E i \in 1..Len(array) : PathThroughIndex(err, i - 1, try_from(E, array[i]))

\* An array one of whose children fails to convert under E.
BadChild(E, array) == \E i \in 1..Len(array) : ~try_from(E, array[i]).ok

C12_AccumulatingErrorPath ==
  /\ pc = "Vec<Vec<i64>>" /\ value.tag = "Array"
       /\ BadChild(T_Vec(T_i64), value.array) =>
       /\ ~result.ok
       /\ ArrayPath(T_Vec(T_i64), value.array, result.err)
       /\ \A i \in 1..Len(value.array) :
            value.array[i].tag = "Array" /\ BadChild(T_i64, value.array[i].array)
              => ArrayPath(T_i64, value.array[i].array,
                           try_from(T_Vec(T_i64), value.array[i]).err)
  /\ pc = "Vec<(String, i64)>" /\ value.tag = "Array"
       /\ BadChild(T_Pair(T_String, T_i64), value.array) =>
       /\ ~result.ok
       /\ ArrayPath(T_Pair(T_String, T_i64), value.array, result.err)
       /\ \A i \in 1..Len(value.array) :
            /\ value.array[i].tag = "Array"
            /\ Len(value.array[i].array) = 2
            /\ ~Pair_try_from(T_String, T_i64, value.array[i]).ok
            => \/ PathThroughIndex(
                    Pair_try_from(T_String, T_i64, value.array[i]).err, 0,
                    try_from(T_String, value.array[i].array[1]))
               \/ PathThroughIndex(
                    Pair_try_from(T_String, T_i64, value.array[i]).err, 1,
                    try_from(T_i64, value.array[i].array[2]))
  /\ pc = "(String, Vec<i64>)" /\ value.tag = "Array" /\ Len(value.array) = 2
       /\ ~result.ok =>
       \/ IsSuffix(try_from(T_String, value.array[1]).err, result.err)
       \/ IsSuffix(try_from(T_Vec(T_i64), value.array[2]).err, result.err)
  /\ pc = "HashSet<Vec<i64>>" /\ value.tag = "Array"
       /\ BadChild(T_Vec(T_i64), value.array) =>
       /\ ~result.ok
       /\ ArrayPath(T_Vec(T_i64), value.array, result.err)
  /\ pc = "HashMap<String, Vec<i64>>" /\ value.tag = "Map"
       /\ (\E k \in DOMAIN value.map : ~try_from(T_Vec(T_i64), value.map[k]).ok) =>
       /\ ~result.ok
       /\ \E k \in DOMAIN value.map :
            PathThroughKey(result.err, k, try_from(T_Vec(T_i64), value.map[k]))

(***************************************************************************)
(* C13.  simplify removes every literal wrapper: for every value v the     *)
(* tree simplify(v) holds no node Expr(Literal(_)) anywhere, neither at    *)
(* the root, nor inside Map or Array contents, nor inside the literal      *)
(* values nested in the arguments or operands of a remaining call,         *)
(* operator or function-definition expression.                             *)
(***************************************************************************)
RECURSIVE LiteralsOf(_)
\* The literal values nested in the operands and arguments of an expression.
LiteralsOf(e) ==
  CASE e.tag = "Literal" -> {e.obj}
    [] e.tag = "Unop" -> LiteralsOf(e.operand)
    [] e.tag = "Binop" -> LiteralsOf(e.lhs) \cup LiteralsOf(e.rhs)
    [] e.tag = "Funcall" ->
         UNION {LiteralsOf(e.args[i]) : i \in 1..Len(e.args)}
    [] OTHER -> {}

RECURSIVE HoldsWrapper(_)
\* The tree o holds a node Expr(Literal(_)).
HoldsWrapper(o) ==
  CASE o.tag = "Map" -> \E k \in DOMAIN o.map : HoldsWrapper(o.map[k])
    [] o.tag = "Array" -> \E i \in 1..Len(o.array) : HoldsWrapper(o.array[i])
    [] o.tag = "Expr" ->
         \/ o.expr.tag = "Literal"
         \/ \E l \in LiteralsOf(o.expr) : HoldsWrapper(l)
    [] OTHER -> FALSE

C13_NoWrapperLeft == pc \in {"simplify", "simplify_again"} => ~HoldsWrapper(result)

(***************************************************************************)
(* C14.  The lexical skipper is total and idempotent: on every text        *)
(* whitespace succeeds, its remainder is a suffix of the text, and         *)
(* whitespace applied to that remainder consumes nothing.                  *)
(***************************************************************************)
C14_SkipperIdempotent ==
  /\ pc \in {"whitespace", "whitespace_again"} =>
       /\ result.st = "ok"
       /\ IsSuffix(result.rest, text)
  /\ pc = "whitespace_again" => again = Ok(Unit, result.rest)

\* A blank, a comment with text and its line end have been skipped in one
\* call, and the skipper has been applied again.
C14_Witness ==
  /\ pc = "whitespace_again"
  /\ text = <<" ", "-", "-", "c", Newline>>
  /\ result.rest = <<>>

(***************************************************************************)
(* C15.  The lexical skipper consumes all leading insignificant text: the  *)
(* remainder whitespace returns begins neither with a whitespace character *)
(* nor with the comment marker "--", for any alternation of whitespace     *)
(* runs and line comments, a comment with no text after the marker         *)
(* included.                                                               *)
(***************************************************************************)
StartsInsignificant(s) ==
  \/ s # <<>> /\ s[1] \in Multispace
  \/ StartsWith(s, W_comment)

C15_SkipperConsumesAll ==
  pc = "whitespace" => result.st = "ok" /\ ~StartsInsignificant(result.rest)

(***************************************************************************)
(* C16.  Trailing-skip convention: whenever a value, expression, statement *)
(* or function rule (parse_object, parse_expr with its parenthesized       *)
(* alternative, parse_stmt, parse_function) succeeds, the remainder it     *)
(* returns does not begin with whitespace or a line comment.               *)
(***************************************************************************)
SkippingRules == {"object", "expr", "stmt", "named_function", "anon_function"}

C16_TrailingSkip ==
  pc \in SkippingRules /\ result.st = "ok" => ~StartsInsignificant(result.rest)

(***************************************************************************)
(* C17.  Leading skip by the driver: parse_all skips insignificant text    *)
(* before the first token, so a file that begins with blank lines or a     *)
(* line comment followed by valid top-level forms is parsed successfully,  *)
(* with the tables of the same file without that leading text.             *)
(***************************************************************************)
ValidKinds == {"extend", "local", "function", "stmt"}

\* The file is leading insignificant text followed by valid forms only.
LeadingSkipFile ==
  /\ Len(forms) >= 2
  /\ KindAt(1) \in {"comment", "blank"}
  /\ \A k \in 2..Len(forms) : KindAt(k) \in ValidKinds

C17_LeadingSkip ==
  LeadingSkipFile /\ pc # "parse_all" =>
    /\ pc \in {"ok", "decoded"}
    /\ locals = LastLocals(Len(forms))
    /\ functions = LastFunctions(Len(forms))
    /\ data_extends = ExtendArgs(Len(forms))

(***************************************************************************)
(* C18.  Numeric literal outcome: parse_num takes the longest leading run  *)
(* of digits, "." and "-"; it yields Int when the run is a valid integer,  *)
(* Float when it is only a valid floating-point number, and for a run that *)
(* is neither it returns a grammar failure, never aborting the parse.      *)
(***************************************************************************)
\* The longest leading run of number characters of the text.
LeadingRun(s) == Take(s, SpanIn(s, 1, NumChar))

C18_NumOutcome ==
  pc = "num" =>
    LET run == LeadingRun(text)
        after == parse("whitespace", Drop(text, Len(run))).rest
    IN /\ result.st # "panic"
       /\ run # <<>> /\ i64_from_str(run).ok =>
            result = Ok(ObjInt(i64_from_str(run).val), after)
       /\ run # <<>> /\ ~i64_from_str(run).ok /\ f64_from_str(run).ok =>
            result = Ok(ObjFloat(f64_from_str(run).val), after)
       /\ run = <<>> \/ (~i64_from_str(run).ok /\ ~f64_from_str(run).ok) =>
            result = Err

(***************************************************************************)
(* C19.  Binary operations are right-associative with no precedence: for   *)
(* value literals v1..vn and operators op1..op(n-1), parse_expr on         *)
(* "v1 op1 v2 op2 ... vn" yields Binop(op1, Literal v1, Binop(op2,         *)
(* Literal v2, ... Literal vn)) whatever the operators are, the left       *)
(* operand of every Binop being a Literal.                                 *)
(***************************************************************************)
RECURSIVE RightNested(_)
\* The right-nested tree of a chain of lexemes.
RightNested(chain) ==
  IF Len(chain) = 1 THEN Literal(Lexeme(chain[1]).obj)
  ELSE Binop(Lexeme(chain[2]).kind, Literal(Lexeme(chain[1]).obj),
             RightNested(SubSeq(chain, 3, Len(chain))))

C19_RightAssociative ==
  pc = "parse_expr" => result = Ok(RightNested(forms), <<>>)

\* A product followed by a sum has been parsed: precedence would nest it
\* to the left.
C19_Witness ==
  /\ pc = "parse_expr"
  /\ forms = <<"1", "*", "-2", "+", "s">>
  /\ result.st = "ok"
  /\ result.val.rhs.tag = "Binop"

(***************************************************************************)
(* C20.  Left-nested subscript targets: parse_lvalue on a chained          *)
(* subscript target such as a[i][j] consumes the whole target and yields   *)
(* Subscript(Subscript(Dotted[a], i), j), so that parse_stmt reads         *)
(* "a[i][j] = e" as Assign with that target; a single subscript a.b[i]     *)
(* yields Subscript(Dotted[a, b], i).                                      *)
(***************************************************************************)
RECURSIVE LeftNested(_, _)
\* The target of a base followed by the first k of the subscripts.
LeftNested(t, k) ==
  IF k = 0 THEN Dotted(t.base.path)
  ELSE Subscript(LeftNested(t, k - 1), t.indexes[k].expr)

C20_LeftNestedSubscripts ==
  \A t \in Targets :
    /\ pc = "lvalue" /\ text = TargetText(t) =>
         result = Ok(LeftNested(t, Len(t.indexes)), <<>>)
    /\ pc = "stmt" /\ text = AssignText(t) =>
         result = Ok(Assign(LeftNested(t, Len(t.indexes)), Literal(ObjInt(3))),
                     <<>>)

(***************************************************************************)
(* C21.  parse_all terminates on every finite input: every successful      *)
(* parse_toplevel returns a remainder strictly shorter than its input, so  *)
(* the driver loop reaches an empty remainder or a failing position after  *)
(* finitely many steps.                                                    *)
(***************************************************************************)
\* An iteration of the loop whose parse_toplevel call matched.
MatchedStep == pc = "parse_all" /\ pc' \in {"parse_all", "ok"}

\* The call the loop is about to make has an outcome, and a match leaves a
\* remainder strictly shorter than the input it was given.
CallShortens(r) ==
  /\ r.st \in {"ok", "err", "panic"}
  /\ r.st = "ok" => Len(r.rest) < Len(input)

C21_Terminates ==
  /\ [](pc = "parse_all" => CallShortens(parse_toplevel(self, input)))
  /\ [][MatchedStep => Len(input') < Len(input)]_vars
  /\ <>(pc \in {"decoded", "err", "panic"})

\* The loop has run twice, once per form, and has returned success.
C21_Witness ==
  /\ pc = "ok"
  /\ Len(forms) = 2
  /\ KindAt(1) \in ValidKinds
  /\ KindAt(2) \in ValidKinds
  /\ EndOf(1) < Len(FileText(forms))
  /\ input = <<>>

(***************************************************************************)
(* C22.  The work queue of main drains: for every finite recipe map and   *)
(* every goal product the loop eventually empties todo_requirements, also  *)
(* when a product is, directly or through other recipes, an ingredient of  *)
(* a recipe that produces it.  Stated for the runs that neither panic nor  *)
(* leave the bounds of the model: each of them reaches the end of the loop *)
(* with the queue empty.                                                   *)
(***************************************************************************)
\* The iteration that has popped its pair would exceed MaxQueue or MaxRate.
OutOfBounds == pc = "body" /\ ~WithinBounds

C22_QueueDrains ==
  <>(\/ pc = "done" /\ todo_requirements = <<>>
     \/ pc = "panic"
     \/ OutOfBounds)

\* The products the chosen recipe of p takes, and everything reached from a
\* set of products through chosen recipes.
Takes(p) ==
  IF p \in DOMAIN recipe_map
  THEN LET f == fastest_of(recipe_map[p])
       IN {f.ingredients[i].name : i \in 1..Len(f.ingredients)}
  ELSE {}

RECURSIVE Closure(_)
Closure(S) ==
  LET N == S \cup UNION {Takes(p) : p \in S}
  IN IF N = S THEN S ELSE Closure(N)

\* Some product the goal needs is needed to make itself.
Cyclic == \E p \in Closure({goal[1]}) : p \in Closure(Takes(p))

\* Where no product the goal needs is needed to make itself, the bounds are
\* never met and the loop ends with the queue empty, or panics.
DrainsWithoutCycle ==
  /\ [](OutOfBounds => Cyclic)
  /\ ~Cyclic => <>(pc \in {"done", "panic"})

====
